---- MODULE Spec2Model ----
(***************************************************************************)
(* Compositing engine of imagen-thumbnail-api: placement geometry          *)
(* (calculateProductPosition, lifestyle and contextual), the three         *)
(* orchestrators (compositeLifestyleThumbnail, compositeContextualThumbnail*)
(* compositeProductOnBackground), the contextual-thumbnail route, and the  *)
(* two endpoints mounted behind the authenticateToken middleware.          *)
(*                                                                         *)
(* Numbers.  Pixel quantities are integers.  JavaScript numbers are IEEE   *)
(* doubles: products of the canvas size with the literals 0.35, 0.65, 0.8, *)
(* 0.85 are exact in double arithmetic (448, 832|468, 576, 612), so they   *)
(* are written as integer percentages.  The quotient cutoutWidth /         *)
(* cutoutHeight is in general NOT exact, and Math.floor of an expression   *)
(* using it can fall one below the mathematical value; FloorDivAspect and  *)
(* FloorMulAspect reproduce that rounding bit for bit.                     *)
(* productSpaceRatio is carried in hundredths (35 stands for 0.35), and so *)
(* are shadow and vignette opacities and the gradient's coordinates.       *)
(*                                                                         *)
(* Three specifications share the variables: SpecGeom applies the          *)
(* placement resolvers (and the flat pipeline's inline placement),         *)
(* SpecEffects the shadow presets, the blur and the vignette, and Spec     *)
(* runs the orchestrators, the routes and the middleware step by step.     *)
(***************************************************************************)
EXTENDS Integers, Sequences, FiniteSets, TLC

\* ------------------------------------------------------------------ bounds
MaxDim == 20            \* cutout widths and heights 1..MaxDim are explored
MaxRatioStep == 24      \* productSpaceRatio in 0, 5, ..., 5 * MaxRatioStep hundredths
MaxVariations == 2      \* backgrounds returned by one generateImages call
MaxRadius == 30         \* blur radii -2..MaxRadius are explored
MaxOpacityPct == 100    \* vignette opacities -5..MaxOpacityPct hundredths
GridSize == 20          \* canvas points sampled at multiples of 1 / GridSize

\* ------------------------------------------------------- program constants
THUMBNAIL_WIDTH == 1280
THUMBNAIL_HEIGHT == 720
MinDrawSize == 200
EdgeMargin == 20
ReflectionBottomGap == 50
DefaultCutoutSize == 400

PedestalPositions == {"center", "right-third", "left-third", "center-bottom"}

\* Cutout sizes: every small size (all aspect ratios p/q with p, q <= MaxDim)
\* and a few real image sizes.
ExtraDims == {200, 300, 1000}
GeomDims == (1..MaxDim) \cup ExtraDims
RatioPcts == {5 * k : k \in 0..MaxRatioStep}

Max(a, b) == IF a >= b THEN a ELSE b
Min(a, b) == IF a <= b THEN a ELSE b

\* --------------------------------------------- IEEE double rounding helpers
RECURSIVE Pow2(_)
Pow2(n) == IF n = 0 THEN 1 ELSE 2 * Pow2(n - 1)

RECURSIVE Pow2Mod(_, _)
Pow2Mod(k, m) == IF k = 0 THEN 1 % m ELSE (2 * Pow2Mod(k - 1, m)) % m

\* Binary exponent of the quotient cw / ch: the e with 2^e <= cw/ch < 2^(e+1).
AspectExponent(cw, ch) ==
  IF cw >= ch
  THEN CHOOSE e \in 0..15 : Pow2(e) * ch <= cw /\ cw < Pow2(e + 1) * ch
  ELSE 0 - (CHOOSE e \in 1..15 : Pow2(e) * cw >= ch /\ Pow2(e - 1) * cw < ch)

CeilLog2(q) == CHOOSE c \in 0..30 : Pow2(c) >= q /\ (c = 0 \/ Pow2(c - 1) < q)

\* Signed error of the double cutoutAspect = cutoutWidth / cutoutHeight
\* (53-bit significand, round to nearest), in units of 1 / (ch * 2^(52 - e)):
\* positive when the double lies above cw/ch, negative when below, 0 if exact.
AspectRoundErr(cw, ch) ==
  LET k == 52 - AspectExponent(cw, ch)
      r == ((cw % ch) * Pow2Mod(k, ch)) % ch
  IN  IF 2 * r > ch THEN ch - r ELSE 0 - r

\* An expression whose mathematical value is the integer q > 0, computed with
\* the double cutoutAspect whose error has magnitude s on the lowering side,
\* rounds to the double just below q exactly when this holds.
RoundsBelow(q, cw, ch, s) ==
  LET x == CeilLog2(q) - 2 - AspectExponent(cw, ch)
  IN  IF x >= 0 THEN q * s > cw * Pow2(x)
                ELSE q * s > cw \div Pow2(0 - x)

\* Math.floor(t / cutoutAspect)
FloorDivAspect(t, cw, ch) ==
  LET q == (t * ch) \div cw
      s == AspectRoundErr(cw, ch)
  IN  IF (t * ch) % cw = 0 /\ q > 0 /\ s > 0 /\ RoundsBelow(q, cw, ch, s)
      THEN q - 1 ELSE q

\* Math.floor(d * cutoutAspect)
FloorMulAspect(d, cw, ch) ==
  LET q == (d * cw) \div ch
      s == AspectRoundErr(cw, ch)
  IN  IF (d * cw) % ch = 0 /\ q > 0 /\ s < 0 /\ RoundsBelow(q, cw, ch, 0 - s)
      THEN q - 1 ELSE q

\* Math.floor(n * pct/100) for the canvas sizes and the percentages used
\* here (all exact in double arithmetic).
PctOf(n, pct) == (n * pct) \div 100

\* ------------------------------------------------------ placement geometry
FitSize_WidthNotRederived(targetWidth, cutoutWidth, cutoutHeight) ==
  IF cutoutWidth > cutoutHeight
  THEN [width  |-> targetWidth,
        height |-> Min(FloorDivAspect(targetWidth, cutoutWidth, cutoutHeight),
                       PctOf(THUMBNAIL_HEIGHT, 80))]
  ELSE [width  |-> Min(FloorMulAspect(PctOf(THUMBNAIL_HEIGHT, 85),
                                      cutoutWidth, cutoutHeight), targetWidth),
        height |-> PctOf(THUMBNAIL_HEIGHT, 85)]

\* "Calculate dimensions while maintaining aspect ratio": the size before
\* the minimum-size floor, shared verbatim by both resolvers.
FitSize(targetWidth, cutoutWidth, cutoutHeight) ==
  IF cutoutWidth > cutoutHeight
  THEN LET h == FloorDivAspect(targetWidth, cutoutWidth, cutoutHeight)
       IN  IF h * 100 > THUMBNAIL_HEIGHT * 80
           THEN [width  |-> FloorMulAspect(PctOf(THUMBNAIL_HEIGHT, 80),
                                           cutoutWidth, cutoutHeight),
                 height |-> PctOf(THUMBNAIL_HEIGHT, 80)]
           ELSE [width |-> targetWidth, height |-> h]
  ELSE LET h == PctOf(THUMBNAIL_HEIGHT, 85)
           w == FloorMulAspect(h, cutoutWidth, cutoutHeight)
       IN  IF w > targetWidth
           THEN [width  |-> targetWidth,
                 height |-> FloorDivAspect(targetWidth, cutoutWidth, cutoutHeight)]
           ELSE [width |-> w, height |-> h]

\* "Ensure minimum size"
EnsureMinimumSize(size) ==
  [width  |-> Max(size.width, MinDrawSize),
   height |-> Max(size.height, MinDrawSize)]

DrawSize(targetWidth, cutoutWidth, cutoutHeight) ==
  EnsureMinimumSize(FitSize(targetWidth, cutoutWidth, cutoutHeight))

\* "Ensure position is within bounds"
ClampY_NoTopMargin(y, drawHeight) ==
  Min(y, THUMBNAIL_HEIGHT - drawHeight - EdgeMargin)

ClampX(x, drawWidth) ==
  Max(EdgeMargin, Min(x, THUMBNAIL_WIDTH - drawWidth - EdgeMargin))

ClampY(y, drawHeight) ==
  Max(EdgeMargin, Min(y, THUMBNAIL_HEIGHT - drawHeight - EdgeMargin))

PedestalY_MidCanvas(drawHeight) == PctOf(THUMBNAIL_HEIGHT, 50) - drawHeight

CenteredX_RightAligned(drawWidth) == THUMBNAIL_WIDTH - drawWidth

CenteredX(drawWidth) == (THUMBNAIL_WIDTH - drawWidth) \div 2
CenteredY(drawHeight) == (THUMBNAIL_HEIGHT - drawHeight) \div 2
\* Math.floor(THUMBNAIL_HEIGHT * 0.65 - drawHeight)
PedestalY(drawHeight) == PctOf(THUMBNAIL_HEIGHT, 65) - drawHeight
\* Math.floor(THUMBNAIL_WIDTH * pct/100 - drawWidth / 2)
AnchoredX(pct, drawWidth) == (2 * THUMBNAIL_WIDTH * pct - 100 * drawWidth) \div 200

LifestyleOrigin_ThirdsSwapped(pedestalPosition, size) ==
  CASE pedestalPosition = "center" ->
         [x |-> CenteredX(size.width), y |-> CenteredY(size.height)]
    [] pedestalPosition = "center-bottom" ->
         [x |-> CenteredX(size.width), y |-> PedestalY(size.height)]
    [] pedestalPosition = "right-third" ->
         [x |-> AnchoredX(33, size.width), y |-> CenteredY(size.height)]
    [] pedestalPosition = "left-third" ->
         [x |-> AnchoredX(67, size.width), y |-> CenteredY(size.height)]
    [] OTHER ->
         [x |-> CenteredX(size.width), y |-> CenteredY(size.height)]

\* switch (pedestalPosition) of the lifestyle resolver
LifestyleOrigin(pedestalPosition, size) ==
  CASE pedestalPosition = "center" ->
         [x |-> CenteredX(size.width), y |-> CenteredY(size.height)]
    [] pedestalPosition = "center-bottom" ->
         [x |-> CenteredX(size.width), y |-> PedestalY(size.height)]
    [] pedestalPosition = "right-third" ->
         [x |-> AnchoredX(67, size.width), y |-> CenteredY(size.height)]
    [] pedestalPosition = "left-third" ->
         [x |-> AnchoredX(33, size.width), y |-> CenteredY(size.height)]
    [] OTHER ->
         [x |-> CenteredX(size.width), y |-> CenteredY(size.height)]

\* switch (pedestalPosition) of the contextual resolver
ContextualOrigin(pedestalPosition, size) ==
  CASE pedestalPosition = "center" ->
         [x |-> CenteredX(size.width), y |-> CenteredY(size.height)]
    [] pedestalPosition = "center-bottom" ->
         [x |-> CenteredX(size.width), y |-> PedestalY(size.height)]
    [] pedestalPosition = "right-third" ->
         [x |-> AnchoredX(65, size.width), y |-> CenteredY(size.height)]
    [] pedestalPosition = "left-third" ->
         [x |-> AnchoredX(35, size.width), y |-> CenteredY(size.height)]
    [] OTHER ->
         [x |-> CenteredX(size.width), y |-> PedestalY(size.height)]

PlaceBox(origin, size) ==
  [x |-> ClampX(origin.x, size.width), y |-> ClampY(origin.y, size.height),
   width |-> size.width, height |-> size.height]

\* calculateProductPosition of the lifestyle service (35% width target)
calculateProductPositionLifestyle(pedestalPosition, cutoutWidth, cutoutHeight) ==
  LET size == DrawSize(PctOf(THUMBNAIL_WIDTH, 35), cutoutWidth, cutoutHeight)
  IN  PlaceBox(LifestyleOrigin(pedestalPosition, size), size)

\* calculateProductPosition of the contextual service
calculateProductPositionContextual(pedestalPosition, productSpaceRatio, cutoutWidth, cutoutHeight) ==
  LET size == DrawSize(PctOf(THUMBNAIL_WIDTH, productSpaceRatio),
                       cutoutWidth, cutoutHeight)
  IN  PlaceBox(ContextualOrigin(pedestalPosition, size), size)

\* ------------------------------------------------------- effect presets
SHADOW_PRESETS_DarkAsStrongAsDramatic ==
  [dark     |-> [blur |-> 35, offsetX |-> 0,  offsetY |-> 20, opacity |-> 50],
   light    |-> [blur |-> 25, offsetX |-> 5,  offsetY |-> 15, opacity |-> 40],
   dramatic |-> [blur |-> 35, offsetX |-> 10, offsetY |-> 25, opacity |-> 60],
   soft     |-> [blur |-> 15, offsetX |-> 3,  offsetY |-> 8,  opacity |-> 20],
   default  |-> [blur |-> 20, offsetX |-> 5,  offsetY |-> 12, opacity |-> 35]]

\* SHADOW_PRESETS of the contextual service (opacity in hundredths)
SHADOW_PRESETS ==
  [dark     |-> [blur |-> 30, offsetX |-> 0,  offsetY |-> 20, opacity |-> 50],
   light    |-> [blur |-> 25, offsetX |-> 5,  offsetY |-> 15, opacity |-> 40],
   dramatic |-> [blur |-> 35, offsetX |-> 10, offsetY |-> 25, opacity |-> 60],
   soft     |-> [blur |-> 15, offsetX |-> 3,  offsetY |-> 8,  opacity |-> 20],
   default  |-> [blur |-> 20, offsetX |-> 5,  offsetY |-> 12, opacity |-> 35]]

\* CATEGORY_SHADOWS of the flat service (opacity in hundredths)
CATEGORY_SHADOWS ==
  [fitness     |-> [blur |-> 25, offsetX |-> 8, offsetY |-> 15, opacity |-> 40],
   supplements |-> [blur |-> 25, offsetX |-> 8, offsetY |-> 15, opacity |-> 40],
   tech        |-> [blur |-> 20, offsetX |-> 5, offsetY |-> 10, opacity |-> 30],
   electronics |-> [blur |-> 20, offsetX |-> 5, offsetY |-> 10, opacity |-> 30],
   beauty      |-> [blur |-> 15, offsetX |-> 3, offsetY |-> 8,  opacity |-> 20],
   home        |-> [blur |-> 20, offsetX |-> 5, offsetY |-> 12, opacity |-> 25],
   food        |-> [blur |-> 18, offsetX |-> 4, offsetY |-> 10, opacity |-> 30],
   outdoor     |-> [blur |-> 25, offsetX |-> 8, offsetY |-> 15, opacity |-> 35],
   baby        |-> [blur |-> 12, offsetX |-> 3, offsetY |-> 6,  opacity |-> 15],
   pet         |-> [blur |-> 18, offsetX |-> 5, offsetY |-> 10, opacity |-> 30],
   fashion     |-> [blur |-> 15, offsetX |-> 4, offsetY |-> 8,  opacity |-> 25],
   lifestyle   |-> [blur |-> 18, offsetX |-> 5, offsetY |-> 10, opacity |-> 25],
   default     |-> [blur |-> 20, offsetX |-> 5, offsetY |-> 10, opacity |-> 30]]

\* String.prototype.toLowerCase on the strings that occur as inputs
toLowerCase(s) ==
  CASE s = "FITNESS" -> "fitness"
    [] s = "Baby" -> "baby"
    [] s = "Tech" -> "tech"
    [] s = "DEFAULT" -> "default"
    [] s = "CONSTRUCTOR" -> "constructor"
    [] s = "toString" -> "tostring"
    [] s = "#1C1C1E" -> "#1c1c1e"
    [] s = "#1c1C1eFF" -> "#1c1c1eff"
    [] s = "#FFFFFF" -> "#ffffff"
    [] s = "STANDARD" -> "standard"
    [] s = "FAST" -> "fast"
    [] s = "ULTRA" -> "ultra"
    [] OTHER -> s

\* String.prototype.includes('1c1c1e') on the strings that occur as inputs
Includes1c1c1e(s) == s \in {"#1c1c1e", "#1c1c1eff"}

getShadowFromDesign_LightOnlyUnderStudioLight(design) ==
  LET bgColor == design.colorScheme.background
      isDarkBg == \/ toLowerCase(bgColor) = "#000000"
                  \/ Includes1c1c1e(toLowerCase(bgColor))
                  \/ design.colorScheme.mood = "bold"
                  \/ design.colorScheme.mood = "energetic"
      lightingType == design.environment.lighting.type
      lightingIntensity == design.environment.lighting.intensity
  IN  IF lightingType = "dramatic" \/ lightingType = "neon"
        THEN SHADOW_PRESETS.dramatic
      ELSE IF lightingType = "soft" \/ lightingIntensity = "low-key"
        THEN SHADOW_PRESETS.soft
      ELSE IF isDarkBg THEN SHADOW_PRESETS.dark
      ELSE IF lightingType = "studio" THEN SHADOW_PRESETS.light
      ELSE SHADOW_PRESETS.default

getShadowFromDesign_SoftBeforeDramatic(design) ==
  LET lightingType == design.environment.lighting.type
      lightingIntensity == design.environment.lighting.intensity
  IN  IF lightingType = "soft" \/ lightingIntensity = "low-key"
        THEN SHADOW_PRESETS.soft
      ELSE IF lightingType = "dramatic" \/ lightingType = "neon"
        THEN SHADOW_PRESETS.dramatic
      ELSE IF design.colorScheme.mood \in {"bold", "energetic"}
        THEN SHADOW_PRESETS.dark
      ELSE SHADOW_PRESETS.light

\* getShadowFromDesign(design)
getShadowFromDesign(design) ==
  LET bgColor == design.colorScheme.background
      isDarkBg == \/ toLowerCase(bgColor) = "#000000"
                  \/ Includes1c1c1e(toLowerCase(bgColor))
                  \/ design.colorScheme.mood = "bold"
                  \/ design.colorScheme.mood = "energetic"
      lightingType == design.environment.lighting.type
      lightingIntensity == design.environment.lighting.intensity
  IN  IF lightingType = "dramatic" \/ lightingType = "neon"
        THEN SHADOW_PRESETS.dramatic
      ELSE IF lightingType = "soft" \/ lightingIntensity = "low-key"
        THEN SHADOW_PRESETS.soft
      ELSE IF isDarkBg THEN SHADOW_PRESETS.dark
      ELSE IF ~isDarkBg THEN SHADOW_PRESETS.light
      ELSE SHADOW_PRESETS.default

\* Lower-case names every JavaScript object inherits from Object.prototype: indexing
\* the CATEGORY_SHADOWS object literal with one of them yields a truthy
\* value that is not a preset.
InheritedPropertyNames == {"constructor", "__proto__"}
NotAPreset == [blur |-> -1, offsetX |-> -1, offsetY |-> -1, opacity |-> -1]

\* getShadowSettings(category); the missing category is the empty string
getShadowSettings(category) ==
  IF category = "" THEN CATEGORY_SHADOWS.default
  ELSE LET normalized == toLowerCase(category)
       IN  IF normalized \in DOMAIN CATEGORY_SHADOWS
             THEN CATEGORY_SHADOWS[normalized]
           ELSE IF normalized \in InheritedPropertyNames THEN NotAPreset
           ELSE CATEGORY_SHADOWS.default

\* ------------------------------------------------------------ blur service
MIN_BLUR_RADIUS == 8
MAX_BLUR_RADIUS == 15
DEFAULT_BLUR_RADIUS == 12

\* an optional argument is a sequence: empty when the caller left it out
\* (undefined), else the one value passed
Omitted == <<>>
Given(value) == <<value>>

\* a raster image: its pixel dimensions and the effects applied to it so far
Raster(width, height) ==
  [width |-> width, height |-> height, blur |-> 0, vignette |-> <<>>]

clampedRadius_OnlyLowerBound(radius) ==
  LET given == IF radius = Omitted THEN DEFAULT_BLUR_RADIUS ELSE radius[1]
  IN  Max(MIN_BLUR_RADIUS, given)

\* radius: number = DEFAULT_BLUR_RADIUS;
\* clampedRadius = Math.max(MIN_BLUR_RADIUS, Math.min(MAX_BLUR_RADIUS, radius))
clampedRadius(radius) ==
  LET given == IF radius = Omitted THEN DEFAULT_BLUR_RADIUS ELSE radius[1]
  IN  Max(MIN_BLUR_RADIUS, Min(MAX_BLUR_RADIUS, given))

\* sharp's blur(sigma) accepts a sigma between 0.3 and 1000
SharpAcceptsSigma(sigma) == sigma >= 1 /\ sigma <= 1000

\* applyGaussianBlur(imageBuffer, radius): same raster, blurred
applyGaussianBlur(imageBuffer, radius) ==
  [imageBuffer EXCEPT !.blur = clampedRadius(radius)]

\* -------------------------------------------------------- gradient service
\* opacities in hundredths, gradient coordinates in hundredths of the
\* bounding box
MIN_OPACITY == 20
MAX_OPACITY == 30
DEFAULT_OPACITY == 25
GradientRadius == 70
TransparentStop == 60

POSITION_MAP_ThirdsSwapped ==
  [p \in PedestalPositions |->
     CASE p = "center"        -> [cx |-> 50, cy |-> 55]
       [] p = "right-third"   -> [cx |-> 33, cy |-> 55]
       [] p = "left-third"    -> [cx |-> 67, cy |-> 55]
       [] p = "center-bottom" -> [cx |-> 50, cy |-> 70]]

POSITION_MAP ==
  [p \in PedestalPositions |->
     CASE p = "center"        -> [cx |-> 50, cy |-> 55]
       [] p = "right-third"   -> [cx |-> 67, cy |-> 55]
       [] p = "left-third"    -> [cx |-> 33, cy |-> 55]
       [] p = "center-bottom" -> [cx |-> 50, cy |-> 70]]

HexDigits == <<"0", "1", "2", "3", "4", "5", "6", "7",
               "8", "9", "a", "b", "c", "d", "e", "f">>

\* Number.prototype.toString(16) of a non-negative integer
RECURSIVE toString16(_)
toString16(n) ==
  IF n < 16 THEN HexDigits[n + 1]
  ELSE toString16(n \div 16) \o HexDigits[(n % 16) + 1]

\* String.prototype.padStart(2, '0')
padStart2(str) == IF Len(str) < 2 THEN "0" \o str ELSE str

clampedOpacity_OnlyLowerBound(opacity) ==
  LET given == IF opacity = Omitted THEN DEFAULT_OPACITY ELSE opacity[1]
  IN  Max(MIN_OPACITY, given)

\* opacity: number = DEFAULT_OPACITY;
\* clampedOpacity = Math.max(MIN_OPACITY, Math.min(MAX_OPACITY, opacity))
clampedOpacity(opacity) ==
  LET given == IF opacity = Omitted THEN DEFAULT_OPACITY ELSE opacity[1]
  IN  Max(MIN_OPACITY, Min(MAX_OPACITY, given))

\* Math.round(clampedOpacity * 255): halves round up (0.30 * 255 = 76.5 -> 77)
AlphaByte(opacityPct) == (opacityPct * 255 + 50) \div 100

\* opacityHex
opacityHex(opacity) == padStart2(toString16(AlphaByte(clampedOpacity(opacity))))

\* createRadialGradient(width, height, position, opacity): the SVG document
createRadialGradient(width, height, position, opacity) ==
  [width |-> width, height |-> height,
   cx |-> POSITION_MAP[position].cx, cy |-> POSITION_MAP[position].cy,
   r |-> GradientRadius,
   stops |-> <<[offset |-> 0, color |-> "transparent", alpha |-> 0],
               [offset |-> TransparentStop, color |-> "transparent", alpha |-> 0],
               [offset |-> 100, color |-> "#000000" \o opacityHex(opacity),
                alpha |-> AlphaByte(clampedOpacity(opacity))]>>]

\* applyGradientOverlay(imageBuffer, gradientSvg): same raster, gradient on top
applyGradientOverlay(imageBuffer, gradientSvg) ==
  [imageBuffer EXCEPT !.vignette = gradientSvg]

\* largest integer whose square is at most n, by bisection of lo..hi
RECURSIVE ISqrtBetween(_, _, _)
ISqrtBetween(n, lo, hi) ==
  IF lo >= hi THEN lo
  ELSE LET mid == (lo + hi + 1) \div 2
       IN  IF mid * mid <= n THEN ISqrtBetween(n, mid, hi)
           ELSE ISqrtBetween(n, lo, mid - 1)
ISqrt(n) == ISqrtBetween(n, 0, 46340)

VignetteAlpha_OpaqueFromRadiusOnly(gradientSvg, u, v, den) ==
  LET dx == 100 * u - den * gradientSvg.cx
      dy == 100 * v - den * gradientSvg.cy
      outer == den * gradientSvg.r
  IN  IF dx * dx + dy * dy < outer * outer THEN 0
      ELSE gradientSvg.stops[3].alpha

\* Alpha byte that the <radialGradient> paints at the point (u/den, v/den)
\* of the bounding box: objectBoundingBox units, focal point at the centre,
\* spread method pad; transparent up to the 60% stop, then linear up to the
\* last stop's alpha at the radius, constant beyond it.
VignetteAlpha(gradientSvg, u, v, den) ==
  LET dx == 100 * u - den * gradientSvg.cx
      dy == 100 * v - den * gradientSvg.cy
      d == ISqrt(dx * dx + dy * dy)
      inner == den * ((gradientSvg.r * gradientSvg.stops[2].offset) \div 100)
      outer == den * gradientSvg.r
      edge == gradientSvg.stops[3].alpha
  IN  IF dx * dx + dy * dy <= inner * inner THEN 0
      ELSE IF d >= outer THEN edge
      ELSE (edge * (d - inner)) \div (outer - inner)

\* blend 'over' of black at the given alpha byte onto an opaque white pixel
WhiteUnder(alpha) == 255 - alpha

\* --------------------------------------------------- flat pipeline geometry
\* drawWidth / drawHeight of compositeProductOnBackground
FlatDrawSize(cutoutWidth, cutoutHeight) ==
  LET targetWidth == PctOf(THUMBNAIL_WIDTH, 45)
      fit == IF cutoutWidth > cutoutHeight
             THEN LET w == Min(targetWidth, cutoutWidth)
                  IN  [width |-> w,
                       height |-> FloorDivAspect(w, cutoutWidth, cutoutHeight)]
             ELSE LET h == Min(PctOf(THUMBNAIL_HEIGHT, 85), cutoutHeight)
                  IN  [width |-> FloorMulAspect(h, cutoutWidth, cutoutHeight),
                       height |-> h]
  IN  EnsureMinimumSize(fit)

\* x, y of compositeProductOnBackground: right side, 5% margin, centred
FlatPosition(cutoutWidth, cutoutHeight) ==
  LET size == FlatDrawSize(cutoutWidth, cutoutHeight)
  IN  [x |-> THUMBNAIL_WIDTH - size.width - PctOf(THUMBNAIL_WIDTH, 5),
       y |-> (THUMBNAIL_HEIGHT - size.height) \div 2,
       width |-> size.width, height |-> size.height]

\* ------------------------------------------------------------------ layers
ShadowLayer_SpreadByBlur(position, shadow) ==
  [layer |-> "shadow",
   top  |-> Max(0, position.y + shadow.offsetY - 2 * shadow.blur),
   left |-> Max(0, position.x + shadow.offsetX - 2 * shadow.blur)]

ShadowLayer(position, shadow) ==
  [layer |-> "shadow",
   top  |-> Max(0, position.y + shadow.offsetY),
   left |-> Max(0, position.x + shadow.offsetX)]

ReflectionLayer_ClampsAtMidCanvas(position) ==
  [layer |-> "reflection",
   top  |-> Min(THUMBNAIL_HEIGHT \div 2, position.y + position.height),
   left |-> position.x]

ReflectionLayer(position) ==
  [layer |-> "reflection",
   top  |-> Min(THUMBNAIL_HEIGHT - ReflectionBottomGap, position.y + position.height),
   left |-> position.x]

CutoutLayer(position) ==
  [layer |-> "cutout", top |-> position.y, left |-> position.x]

WantsReflection_IgnoresPosition(pedestal) == pedestal.hasReflection

\* if (pedestal.hasReflection && pedestal.position === 'center-bottom')
WantsReflection(pedestal) ==
  pedestal.hasReflection /\ pedestal.position = "center-bottom"

ResizeCover_WithoutEnlargement(image, width, height) ==
  [image EXCEPT !.width = Min(image.width, width),
                !.height = Min(image.height, height)]

\* sharp(buffer).resize(width, height, { fit: 'cover' }): scaled and cropped
\* to exactly width x height
ResizeCover(image, width, height) ==
  [image EXCEPT !.width = width, !.height = height]

\* sharp(base).composite(layers): the layers are painted onto the base, whose
\* dimensions the output keeps
CompositeOnto(base, id, layers) ==
  [background |-> id, layers |-> layers,
   width |-> base.width, height |-> base.height]

\* cutoutMetadata.width || 400 (a missing dimension is 0 here)
OrDefault(dimension) == IF dimension = 0 THEN DefaultCutoutSize ELSE dimension

\* ------------------------------------------------------------------- state
VARIABLES
  call,              \* resolver harness: the calculateProductPosition call
  box,               \* resolver harness: the box it returned, or NoBox
  effect,            \* effect harness: what the preset or effect function returned
  args,              \* arguments of the orchestrator invocation in progress
  pc,                \* the await the orchestrator is suspended at
  position,          \* const position / productPosition / {x, y, drawWidth, drawHeight}
  shadow,            \* const shadow (resolved preset)
  compositeInputs,   \* the layer list built so far
  canvas,            \* operations applied to the background raster, in order
  raster,            \* the background raster those operations produced
  gradient,          \* const gradient (the vignette SVG)
  reflectionFailed,  \* the inner catch of the reflection block has run
  result,            \* what the orchestrator returned or threw
  route,             \* the contextual-thumbnail request handler
  generatedImages,   \* const generatedImages
  compositedImages,  \* const compositedImages
  outcomes,          \* how each compositeContextualThumbnail call of the loop ended
  response,          \* the HTTP response sent
  protected,         \* a request to an endpoint mounted behind authenticateToken
  previous           \* observer: the finished invocation the current one repeats

harnessVars == <<call, box, effect, previous>>
effectVars == <<raster, gradient>>
runVars == <<args, pc, position, shadow, compositeInputs, canvas, raster,
             gradient, reflectionFailed, result>>
routeVars == <<route, generatedImages, compositedImages, outcomes, response,
              protected>>
vars == <<call, box, effect, args, pc, position, shadow, compositeInputs,
          canvas, raster, gradient, reflectionFailed, result, route,
          generatedImages, compositedImages, outcomes, response, protected,
          previous>>

NoBox == [x |-> -1, y |-> -1, width |-> 0, height |-> 0]
NoCall == [fn |-> "none", pedestalPosition |-> "center", productSpaceRatio |-> 0,
           cutoutWidth |-> 0, cutoutHeight |-> 0]
NoEffect == [fn |-> "none"]
NoRaster == [width |-> 0, height |-> 0, blur |-> 0, vignette |-> <<>>]
NoGradient == <<>>
NoShadow == [blur |-> 0, offsetX |-> 0, offsetY |-> 0, opacity |-> 0]
NoResult == [status |-> "none", composited |-> FALSE, position |-> NoBox,
             image |-> <<>>, error |-> "none"]
NoScene == [environment |-> [lighting |-> [type |-> "none", intensity |-> "none"]],
            colorScheme |-> [background |-> "", mood |-> "none"],
            pedestal |-> [position |-> "none", hasReflection |-> FALSE,
                          productSpaceRatio |-> 0]]
NoArgs == [pipeline |-> "none", caller |-> "none", background |-> 0,
           cutout |-> [width |-> 0, height |-> 0], sceneDesign |-> NoScene,
           position |-> "none", category |-> "",
           blurRadius |-> <<>>, gradientOpacity |-> <<>>,
           backgroundSize |-> [width |-> 0, height |-> 0]]
NoResponse == [status |-> 0, variations |-> <<>>, modelUsed |-> "", sent |-> 0]
IdleRoute == [pc |-> "idle", cutout |-> [width |-> 0, height |-> 0],
              sceneDesign |-> NoScene, modelTier |-> "", modelId |-> "",
              parsed |-> FALSE, configured |-> FALSE,
              generateCalls |-> 0, compositeCalls |-> 0]
IdleProtected == [pc |-> "idle", endpoint |-> "", authorization |-> <<>>,
                  secretConfigured |-> FALSE, verified |-> "none",
                  nextCalled |-> FALSE, handlerRan |-> FALSE,
                  responses |-> <<>>, modelTier |-> "", modelId |-> "",
                  modelUsed |-> ""]
NoPrevious == <<>>

RunIdle ==
  /\ args = NoArgs /\ pc = "idle" /\ position = NoBox /\ shadow = NoShadow
  /\ compositeInputs = <<>> /\ canvas = <<>> /\ reflectionFailed = FALSE
  /\ raster = NoRaster /\ gradient = NoGradient
  /\ result = NoResult
RouteIdle ==
  /\ route = IdleRoute /\ generatedImages = <<>> /\ compositedImages = <<>>
  /\ outcomes = <<>> /\ response = NoResponse
  /\ protected = IdleProtected

\* ------------------------------------------- specification of the resolvers
GeomCalls ==
  [fn : {"lifestyle"}, pedestalPosition : PedestalPositions,
   productSpaceRatio : {35},
   cutoutWidth : GeomDims, cutoutHeight : GeomDims]
  \cup
  [fn : {"contextual"}, pedestalPosition : PedestalPositions,
   productSpaceRatio : RatioPcts,
   cutoutWidth : GeomDims, cutoutHeight : GeomDims]
  \cup
  \* the flat pipeline takes no intent and no ratio (45% width target)
  [fn : {"flat"}, pedestalPosition : {"center"},
   productSpaceRatio : {45},
   cutoutWidth : GeomDims, cutoutHeight : GeomDims]

InitGeom ==
  /\ call \in GeomCalls
  /\ box = NoBox /\ effect = NoEffect /\ previous = NoPrevious
  /\ RunIdle /\ RouteIdle

ResolveLifestyle ==
  /\ call.fn = "lifestyle"
  /\ box = NoBox
  /\ box' = calculateProductPositionLifestyle(call.pedestalPosition,
                                              call.cutoutWidth, call.cutoutHeight)
  /\ UNCHANGED <<call, effect, previous, runVars, routeVars>>

ResolveContextual ==
  /\ call.fn = "contextual"
  /\ box = NoBox
  /\ box' = calculateProductPositionContextual(call.pedestalPosition,
               call.productSpaceRatio, call.cutoutWidth, call.cutoutHeight)
  /\ UNCHANGED <<call, effect, previous, runVars, routeVars>>

\* the size and position computed inline by compositeProductOnBackground
ResolveFlat ==
  /\ call.fn = "flat"
  /\ box = NoBox
  /\ box' = FlatPosition(call.cutoutWidth, call.cutoutHeight)
  /\ UNCHANGED <<call, effect, previous, runVars, routeVars>>

NextGeom == ResolveLifestyle \/ ResolveContextual \/ ResolveFlat

SpecGeom == InitGeom /\ [][NextGeom]_vars

\* ------------------------------ specification of the presets and effects
\* the enumerations of the scene design schema
LightingTypes == {"dramatic", "soft", "natural", "studio", "golden-hour", "neon"}
LightingIntensities == {"high-contrast", "balanced", "low-key"}
Moods == {"energetic", "premium", "calm", "natural", "bold", "elegant", "playful"}
BackgroundColors ==
  {"#000000", "#1C1C1E", "#1c1c1e", "#1c1C1eFF", "#FFFFFF", "#2c2c2e"}
ShadowDesigns ==
  [environment : [lighting : [type : LightingTypes,
                              intensity : LightingIntensities]],
   colorScheme : [background : BackgroundColors, mood : Moods]]

\* categories: every table key, other spellings of some keys, the missing
\* category, unknown words, and names of built-in object properties
Categories ==
  DOMAIN CATEGORY_SHADOWS
  \cup {"FITNESS", "Baby", "Tech", "DEFAULT", "", "gadgets", "toys",
        "constructor", "CONSTRUCTOR", "__proto__", "toString"}

BlurRadii == {Omitted} \cup {Given(r) : r \in (0 - 2)..MaxRadius}
Opacities == {Omitted} \cup {Given(o) : o \in (0 - 5)..MaxOpacityPct}
SampledOpacities == {Omitted, Given(0), Given(20), Given(25), Given(30), Given(100)}
GradientSizes ==
  {[width |-> 1280, height |-> 720], [width |-> 100, height |-> 100],
   [width |-> 1, height |-> 1]}
\* points of the canvas border, in units of 1 / GridSize of its width and height
BorderPoints ==
  {p \in (0..GridSize) \X (0..GridSize) :
     p[1] \in {0, GridSize} \/ p[2] \in {0, GridSize}}

EffectCalls ==
  [fn : {"getShadowFromDesign"}, design : ShadowDesigns]
  \cup [fn : {"getShadowSettings"}, category : Categories]
  \cup [fn : {"applyGaussianBlur"}, size : GradientSizes, radius : BlurRadii]
  \cup [fn : {"createRadialGradient"}, size : GradientSizes,
        position : PedestalPositions, opacity : Opacities]
  \cup [fn : {"applyGradientOverlay"}, size : {[width |-> 100, height |-> 100]},
        position : PedestalPositions, opacity : SampledOpacities,
        point : BorderPoints]

InitEffects ==
  /\ call \in EffectCalls
  /\ box = NoBox /\ effect = NoEffect /\ previous = NoPrevious
  /\ RunIdle /\ RouteIdle

ResolveShadowFromDesign ==
  /\ call.fn = "getShadowFromDesign" /\ effect = NoEffect
  /\ effect' = [fn |-> call.fn, shadow |-> getShadowFromDesign(call.design)]
  /\ UNCHANGED <<call, box, previous, runVars, routeVars>>

ResolveShadowSettings ==
  /\ call.fn = "getShadowSettings" /\ effect = NoEffect
  /\ effect' = [fn |-> call.fn, shadow |-> getShadowSettings(call.category)]
  /\ UNCHANGED <<call, box, previous, runVars, routeVars>>

\* applyGaussianBlur on an image of the given size; sharp rejects a sigma it
\* does not accept
BlurImage ==
  /\ call.fn = "applyGaussianBlur" /\ effect = NoEffect
  /\ effect' =
       IF SharpAcceptsSigma(clampedRadius(call.radius))
       THEN [fn |-> call.fn, status |-> "returned",
             image |-> applyGaussianBlur(
                         Raster(call.size.width, call.size.height), call.radius)]
       ELSE [fn |-> call.fn, status |-> "thrown", image |-> NoRaster]
  /\ UNCHANGED <<call, box, previous, runVars, routeVars>>

BuildGradient ==
  /\ call.fn = "createRadialGradient" /\ effect = NoEffect
  /\ effect' = [fn |-> call.fn, status |-> "returned",
                gradient |-> createRadialGradient(call.size.width,
                               call.size.height, call.position, call.opacity)]
  /\ UNCHANGED <<call, box, previous, runVars, routeVars>>

\* createRadialGradient, then applyGradientOverlay onto an opaque white image:
\* the pixel at the sampled point and the pixel at the canvas centre
OverlayOnWhite ==
  /\ call.fn = "applyGradientOverlay" /\ effect = NoEffect
  /\ LET svg == createRadialGradient(call.size.width, call.size.height,
                                     call.position, call.opacity)
         image == applyGradientOverlay(
                    Raster(call.size.width, call.size.height), svg)
         alpha == VignetteAlpha(image.vignette, call.point[1], call.point[2],
                                GridSize)
         centreAlpha == VignetteAlpha(image.vignette, 1, 1, 2)
     IN  effect' = [fn |-> call.fn, image |-> image,
                    alpha |-> alpha, centreAlpha |-> centreAlpha,
                    pixel |-> WhiteUnder(alpha),
                    centrePixel |-> WhiteUnder(centreAlpha)]
  /\ UNCHANGED <<call, box, previous, runVars, routeVars>>

NextEffects ==
  \/ ResolveShadowFromDesign \/ ResolveShadowSettings \/ BlurImage
  \/ BuildGradient \/ OverlayOnWhite

SpecEffects == InitEffects /\ [][NextEffects]_vars

\* ---------------------------------------------------- orchestrator inputs
\* Cutouts handed to the orchestrators: the 200x300 cutout of the tests, a
\* landscape cutout, two thin strips, and an image whose metadata carries no
\* dimensions (0 x 0 here).
RunCutouts ==
  {[width |-> 200, height |-> 300], [width |-> 300, height |-> 200],
   [width |-> 1000, height |-> 300], [width |-> 20, height |-> 1],
   [width |-> 0, height |-> 0]}
\* productSpaceRatio values handed to the orchestrators: below, at the ends
\* of, inside and above the range the route's schema accepts
RunRatioPcts == {0, 20, 35, 60, 100}
RunLightings == [type : {"dramatic", "soft", "natural"}, intensity : {"balanced"}]
RunColorSchemes == [background : {"#FFFFFF"}, mood : {"bold", "calm"}]
Pedestals(ratios) ==
  [position : PedestalPositions, hasReflection : BOOLEAN,
   productSpaceRatio : ratios]
SceneDesigns(ratios) ==
  [environment : [lighting : RunLightings], colorScheme : RunColorSchemes,
   pedestal : Pedestals(ratios)]
RunCategories == {"", "Baby", "gadgets", "constructor"}
\* background images: already canvas-sized, the 100x100 square of the tests,
\* a larger 16:9 frame, a portrait frame
RunBackgroundSizes ==
  {[width |-> 1280, height |-> 720], [width |-> 100, height |-> 100],
   [width |-> 1920, height |-> 1080], [width |-> 720, height |-> 1280]}
\* options.blurRadius / options.gradientOpacity: omitted, below, inside and
\* above the clamping range
RunBlurRadii == {Omitted, Given(2), Given(10), Given(50)}
RunGradientOpacities == {Omitted, Given(5), Given(28), Given(80)}

Thrown(step) == [NoResult EXCEPT !.status = "thrown", !.error = step]
Returned(pos, img) ==
  [status |-> "returned", composited |-> TRUE, position |-> pos,
   image |-> img, error |-> "none"]

\* ------------------------------------------ compositeContextualThumbnail
\* entry of compositeContextualThumbnail (suspends at the metadata await)
EnterContextual(who, bg, cutout, design) ==
  /\ \E size \in RunBackgroundSizes :
       args' = [NoArgs EXCEPT !.pipeline = "contextual", !.caller = who,
                              !.background = bg, !.cutout = cutout,
                              !.sceneDesign = design, !.backgroundSize = size]
  /\ pc' = "metadata"
  /\ position' = NoBox /\ shadow' = NoShadow /\ compositeInputs' = <<>>
  /\ canvas' = <<>> /\ reflectionFailed' = FALSE /\ result' = NoResult
  /\ raster' = Raster(args'.backgroundSize.width, args'.backgroundSize.height)
  /\ gradient' = NoGradient

CallContextual ==
  /\ RunIdle /\ RouteIdle
  /\ \E cutout \in RunCutouts, design \in SceneDesigns(RunRatioPcts) :
       EnterContextual("direct", 0, cutout, design)
  /\ UNCHANGED <<harnessVars, routeVars>>

\* any awaited sharp operation outside the reflection block rejects:
\* the outer catch logs and rethrows
ContextualStepFails ==
  /\ args.pipeline = "contextual"
  /\ pc \in {"metadata", "resizeCutout", "shadow", "resizeBackground", "composite"}
  /\ result' = Thrown(pc)
  /\ pc' = "done"
  /\ UNCHANGED <<harnessVars, routeVars, effectVars, args, position, shadow,
                 compositeInputs, canvas, reflectionFailed>>

ContextualMetadata ==
  /\ args.pipeline = "contextual" /\ pc = "metadata"
  /\ position' = calculateProductPositionContextual(
                   args.sceneDesign.pedestal.position,
                   args.sceneDesign.pedestal.productSpaceRatio,
                   OrDefault(args.cutout.width), OrDefault(args.cutout.height))
  /\ pc' = "resizeCutout"
  /\ UNCHANGED <<harnessVars, routeVars, effectVars, args, shadow, compositeInputs,
                 canvas, reflectionFailed, result>>

ContextualResizeCutout_DefaultShadowOnceWarm ==
  /\ args.pipeline = "contextual" /\ pc = "resizeCutout"
  /\ shadow' = IF previous = <<>> THEN getShadowFromDesign(args.sceneDesign)
               ELSE SHADOW_PRESETS.default
  /\ pc' = "shadow"
  /\ UNCHANGED <<harnessVars, routeVars, effectVars, args, position, compositeInputs,
                 canvas, reflectionFailed, result>>

ContextualResizeCutout ==
  /\ args.pipeline = "contextual" /\ pc = "resizeCutout"
  /\ shadow' = getShadowFromDesign(args.sceneDesign)
  /\ pc' = "shadow"
  /\ UNCHANGED <<harnessVars, routeVars, effectVars, args, position, compositeInputs,
                 canvas, reflectionFailed, result>>

ContextualShadow ==
  /\ args.pipeline = "contextual" /\ pc = "shadow"
  /\ pc' = "resizeBackground"
  /\ UNCHANGED <<harnessVars, routeVars, effectVars, args, position, shadow,
                 compositeInputs, canvas, reflectionFailed, result>>

\* the background is resized; the shadow is pushed; then either the
\* reflection is awaited or the cutout is pushed and the composite awaited
ContextualResizeBackground ==
  /\ args.pipeline = "contextual" /\ pc = "resizeBackground"
  /\ canvas' = <<"resize">>
  /\ raster' = ResizeCover(raster, THUMBNAIL_WIDTH, THUMBNAIL_HEIGHT)
  /\ IF WantsReflection(args.sceneDesign.pedestal)
     THEN /\ compositeInputs' = <<ShadowLayer(position, shadow)>>
          /\ pc' = "reflection"
     ELSE /\ compositeInputs' = <<ShadowLayer(position, shadow),
                                  CutoutLayer(position)>>
          /\ pc' = "composite"
  /\ UNCHANGED <<harnessVars, routeVars, gradient, args, position, shadow,
                 reflectionFailed, result>>

ContextualReflection_AboveCutout ==
  /\ args.pipeline = "contextual" /\ pc = "reflection"
  /\ compositeInputs' = compositeInputs \o
                          <<CutoutLayer(position), ReflectionLayer(position)>>
  /\ pc' = "composite"
  /\ UNCHANGED <<harnessVars, routeVars, effectVars, args, position, shadow, canvas,
                 reflectionFailed, result>>

ContextualReflection ==
  /\ args.pipeline = "contextual" /\ pc = "reflection"
  /\ compositeInputs' = compositeInputs \o
                          <<ReflectionLayer(position), CutoutLayer(position)>>
  /\ pc' = "composite"
  /\ UNCHANGED <<harnessVars, routeVars, effectVars, args, position, shadow, canvas,
                 reflectionFailed, result>>

ContextualReflectionFails_Rethrows ==
  /\ args.pipeline = "contextual" /\ pc = "reflection"
  /\ reflectionFailed' = TRUE
  /\ result' = Thrown("reflection")
  /\ pc' = "done"
  /\ UNCHANGED <<harnessVars, routeVars, effectVars, args, position, shadow,
                 compositeInputs, canvas>>

\* the reflection's sharp chain rejects: the inner catch warns and skips it
ContextualReflectionFails ==
  /\ args.pipeline = "contextual" /\ pc = "reflection"
  /\ reflectionFailed' = TRUE
  /\ compositeInputs' = Append(compositeInputs, CutoutLayer(position))
  /\ pc' = "composite"
  /\ UNCHANGED <<harnessVars, routeVars, effectVars, args, position, shadow, canvas, result>>

ContextualComposite ==
  /\ args.pipeline = "contextual" /\ pc = "composite"
  /\ canvas' = Append(canvas, "composite")
  /\ result' = Returned(position,
                        CompositeOnto(raster, args.background, compositeInputs))
  /\ pc' = "done"
  /\ UNCHANGED <<harnessVars, routeVars, effectVars, args, position, shadow,
                 compositeInputs, reflectionFailed>>

ContextualStep ==
  \/ ContextualMetadata \/ ContextualResizeCutout \/ ContextualShadow
  \/ ContextualResizeBackground \/ ContextualReflection
  \/ ContextualReflectionFails \/ ContextualComposite \/ ContextualStepFails

\* ------------------------------------------- compositeLifestyleThumbnail
CallLifestyle ==
  /\ RunIdle /\ RouteIdle
  /\ \E cutout \in RunCutouts, intent \in PedestalPositions,
        blurRadius \in RunBlurRadii, gradientOpacity \in RunGradientOpacities,
        size \in RunBackgroundSizes :
       args' = [NoArgs EXCEPT !.pipeline = "lifestyle", !.caller = "direct",
                              !.cutout = cutout, !.position = intent,
                              !.blurRadius = blurRadius,
                              !.gradientOpacity = gradientOpacity,
                              !.backgroundSize = size]
  /\ raster' = Raster(args'.backgroundSize.width, args'.backgroundSize.height)
  /\ pc' = "resizeBackground"
  /\ UNCHANGED <<harnessVars, routeVars, gradient, position, shadow, compositeInputs,
                 canvas, reflectionFailed, result>>

LifestyleStepFails_Degrades ==
  /\ args.pipeline = "lifestyle"
  /\ pc \in {"resizeBackground", "blur", "overlay", "metadata",
             "resizeCutout", "composite"}
  /\ result' = [status |-> "returned", composited |-> FALSE, position |-> position,
                image |-> [background |-> args.background, layers |-> compositeInputs],
                error |-> "none"]
  /\ pc' = "done"
  /\ UNCHANGED <<harnessVars, routeVars, effectVars, args, position, shadow,
                 compositeInputs, canvas, reflectionFailed>>

\* an awaited sharp operation rejects: the catch logs and rethrows
\* (createRadialGradient only builds an SVG string and cannot reject)
LifestyleStepFails ==
  /\ args.pipeline = "lifestyle"
  /\ pc \in {"resizeBackground", "blur", "overlay", "metadata",
             "resizeCutout", "composite"}
  /\ result' = Thrown(pc)
  /\ pc' = "done"
  /\ UNCHANGED <<harnessVars, routeVars, effectVars, args, position, shadow,
                 compositeInputs, canvas, reflectionFailed>>

LifestyleResizeBackground_SkipsBlur ==
  /\ args.pipeline = "lifestyle" /\ pc = "resizeBackground"
  /\ canvas' = <<"resize">>
  /\ raster' = ResizeCover(raster, THUMBNAIL_WIDTH, THUMBNAIL_HEIGHT)
  /\ pc' = "gradient"
  /\ UNCHANGED <<harnessVars, routeVars, gradient, args, position, shadow,
                 compositeInputs, reflectionFailed, result>>

LifestyleResizeBackground ==
  /\ args.pipeline = "lifestyle" /\ pc = "resizeBackground"
  /\ canvas' = <<"resize">>
  /\ raster' = ResizeCover(raster, THUMBNAIL_WIDTH, THUMBNAIL_HEIGHT)
  /\ pc' = "blur"
  /\ UNCHANGED <<harnessVars, routeVars, gradient, args, position, shadow,
                 compositeInputs, reflectionFailed, result>>

LifestyleBlur ==
  /\ args.pipeline = "lifestyle" /\ pc = "blur"
  /\ canvas' = Append(canvas, "blur")
  /\ raster' = applyGaussianBlur(raster, args.blurRadius)
  /\ pc' = "gradient"
  /\ UNCHANGED <<harnessVars, routeVars, gradient, args, position, shadow,
                 compositeInputs, reflectionFailed, result>>

LifestyleGradient ==
  /\ args.pipeline = "lifestyle" /\ pc = "gradient"
  /\ gradient' = createRadialGradient(THUMBNAIL_WIDTH, THUMBNAIL_HEIGHT,
                                       args.position, args.gradientOpacity)
  /\ pc' = "overlay"
  /\ UNCHANGED <<harnessVars, routeVars, raster, args, position, shadow,
                 compositeInputs, canvas, reflectionFailed, result>>

LifestyleOverlay ==
  /\ args.pipeline = "lifestyle" /\ pc = "overlay"
  /\ canvas' = Append(canvas, "vignette")
  /\ raster' = applyGradientOverlay(raster, gradient)
  /\ pc' = "metadata"
  /\ UNCHANGED <<harnessVars, routeVars, gradient, args, position, shadow,
                 compositeInputs, reflectionFailed, result>>

LifestyleMetadata ==
  /\ args.pipeline = "lifestyle" /\ pc = "metadata"
  /\ position' = calculateProductPositionLifestyle(args.position,
                   OrDefault(args.cutout.width), OrDefault(args.cutout.height))
  /\ pc' = "resizeCutout"
  /\ UNCHANGED <<harnessVars, routeVars, effectVars, args, shadow, compositeInputs,
                 canvas, reflectionFailed, result>>

LifestyleResizeCutout ==
  /\ args.pipeline = "lifestyle" /\ pc = "resizeCutout"
  /\ compositeInputs' = <<CutoutLayer(position)>>
  /\ pc' = "composite"
  /\ UNCHANGED <<harnessVars, routeVars, effectVars, args, position, shadow, canvas,
                 reflectionFailed, result>>

LifestyleComposite ==
  /\ args.pipeline = "lifestyle" /\ pc = "composite"
  /\ canvas' = Append(canvas, "composite")
  /\ result' = Returned(position,
                        CompositeOnto(raster, args.background, compositeInputs))
  /\ pc' = "done"
  /\ UNCHANGED <<harnessVars, routeVars, effectVars, args, position, shadow,
                 compositeInputs, reflectionFailed>>

LifestyleStep ==
  \/ LifestyleResizeBackground \/ LifestyleBlur \/ LifestyleGradient
  \/ LifestyleOverlay \/ LifestyleMetadata \/ LifestyleResizeCutout
  \/ LifestyleComposite \/ LifestyleStepFails

\* ------------------------------------------ compositeProductOnBackground
CallFlat ==
  /\ RunIdle /\ RouteIdle
  /\ \E cutout \in RunCutouts, category \in RunCategories,
        size \in RunBackgroundSizes :
       args' = [NoArgs EXCEPT !.pipeline = "flat", !.caller = "direct",
                              !.cutout = cutout, !.category = category,
                              !.backgroundSize = size]
  /\ raster' = Raster(args'.backgroundSize.width, args'.backgroundSize.height)
  /\ pc' = "metadata"
  /\ UNCHANGED <<harnessVars, routeVars, gradient, position, shadow, compositeInputs,
                 canvas, reflectionFailed, result>>

FlatStepFails ==
  /\ args.pipeline = "flat"
  /\ pc \in {"metadata", "resizeCutout", "shadow", "resizeBackground", "composite"}
  /\ result' = Thrown(pc)
  /\ pc' = "done"
  /\ UNCHANGED <<harnessVars, routeVars, effectVars, args, position, shadow,
                 compositeInputs, canvas, reflectionFailed>>

FlatMetadata ==
  /\ args.pipeline = "flat" /\ pc = "metadata"
  /\ position' = FlatPosition(OrDefault(args.cutout.width),
                              OrDefault(args.cutout.height))
  /\ pc' = "resizeCutout"
  /\ UNCHANGED <<harnessVars, routeVars, effectVars, args, shadow, compositeInputs,
                 canvas, reflectionFailed, result>>

\* the cutout is resized and the preset looked up; a value that is not a
\* preset has no numeric blur, which sharp refuses inside the try block
FlatResizeCutout ==
  /\ args.pipeline = "flat" /\ pc = "resizeCutout"
  /\ shadow' = getShadowSettings(args.category)
  /\ IF shadow' = NotAPreset
     THEN /\ result' = Thrown("shadow") /\ pc' = "done"
     ELSE /\ result' = result /\ pc' = "shadow"
  /\ UNCHANGED <<harnessVars, routeVars, effectVars, args, position, compositeInputs,
                 canvas, reflectionFailed>>

FlatShadow ==
  /\ args.pipeline = "flat" /\ pc = "shadow"
  /\ pc' = "resizeBackground"
  /\ UNCHANGED <<harnessVars, routeVars, effectVars, args, position, shadow,
                 compositeInputs, canvas, reflectionFailed, result>>

FlatResizeBackground ==
  /\ args.pipeline = "flat" /\ pc = "resizeBackground"
  /\ canvas' = <<"resize">>
  /\ raster' = ResizeCover(raster, THUMBNAIL_WIDTH, THUMBNAIL_HEIGHT)
  /\ compositeInputs' = <<ShadowLayer(position, shadow), CutoutLayer(position)>>
  /\ pc' = "composite"
  /\ UNCHANGED <<harnessVars, routeVars, gradient, args, position, shadow,
                 reflectionFailed, result>>

\* CompositingResult carries no position
FlatComposite ==
  /\ args.pipeline = "flat" /\ pc = "composite"
  /\ canvas' = Append(canvas, "composite")
  /\ result' = Returned(NoBox,
                        CompositeOnto(raster, args.background, compositeInputs))
  /\ pc' = "done"
  /\ UNCHANGED <<harnessVars, routeVars, effectVars, args, position, shadow,
                 compositeInputs, reflectionFailed>>

FlatStep ==
  \/ FlatMetadata \/ FlatResizeCutout \/ FlatShadow \/ FlatResizeBackground
  \/ FlatComposite \/ FlatStepFails

\* ------------------------------- POST /api/generate-contextual-thumbnail
\* generateImages: predictions.map((prediction, index) => ...), scores in
\* hundredths
GeneratedImage(index) ==
  [imageBase64 |-> [background |-> index + 1, layers |-> <<>>],
   qualityScore |-> 90 - index * 5, mimeType |-> "image/png"]

\* generateContextualThumbnailSchema.safeParse(req.body).success
ParseSucceeds(body) ==
  /\ body.wellFormed
  /\ body.sceneDesign.pedestal.productSpaceRatio >= 20
  /\ body.sceneDesign.pedestal.productSpaceRatio <= 60

\* IMAGEN_MODELS of types/index.ts
IMAGEN_MODELS ==
  [STANDARD |-> "imagen-4.0-generate-001",
   FAST     |-> "imagen-4.0-fast-generate-001",
   ULTRA    |-> "imagen-4.0-ultra-generate-001"]
\* modelTier: z.enum(['STANDARD', 'FAST', 'ULTRA']).optional()
ModelTiers == {Omitted, Given("STANDARD"), Given("FAST"), Given("ULTRA")}
\* const { ..., modelTier = 'STANDARD', ... } = parseResult.data
TierOrDefault(modelTier) == IF modelTier = Omitted THEN "STANDARD" ELSE modelTier[1]
\* const modelId = IMAGEN_MODELS[modelTier] of generateImages
ModelIdOf(modelTier) == IMAGEN_MODELS[modelTier]
\* modelUsed: `imagen-4.0-${modelTier.toLowerCase()}-generate-001`
ModelUsed(modelTier) == "imagen-4.0-" \o toLowerCase(modelTier) \o "-generate-001"

RouteCutouts == {[width |-> 200, height |-> 300], [width |-> 1000, height |-> 300]}
RequestBodies ==
  [wellFormed : BOOLEAN, cutout : RouteCutouts,
   sceneDesign : SceneDesigns(RunRatioPcts), modelTier : ModelTiers]

\* res.status(status).json(...) / res.json(...)
Send(status, variations, modelUsed) ==
  [status |-> status, variations |-> variations, modelUsed |-> modelUsed,
   sent |-> response.sent + 1]

RoutePost_ConfigurationFirst ==
  /\ RunIdle /\ RouteIdle
  /\ \E body \in RequestBodies, isImagenConfigured \in BOOLEAN :
       IF ~isImagenConfigured
       THEN /\ response' = Send(503, <<>>, "")
            /\ route' = [IdleRoute EXCEPT !.pc = "done",
                           !.parsed = ParseSucceeds(body),
                           !.configured = isImagenConfigured]
       ELSE IF ~ParseSucceeds(body)
       THEN /\ response' = Send(400, <<>>, "")
            /\ route' = [IdleRoute EXCEPT !.pc = "done",
                           !.parsed = ParseSucceeds(body),
                           !.configured = isImagenConfigured]
       ELSE /\ response' = response
            /\ route' = [pc |-> "generateImages", cutout |-> body.cutout,
                         sceneDesign |-> body.sceneDesign,
                         modelTier |-> TierOrDefault(body.modelTier),
                         modelId |-> ModelIdOf(TierOrDefault(body.modelTier)),
                         parsed |-> TRUE, configured |-> TRUE,
                         generateCalls |-> 1, compositeCalls |-> 0]
  /\ UNCHANGED <<harnessVars, runVars, generatedImages, compositedImages, outcomes,
                 protected>>

\* the request arrives: validation, then the configuration check, then the
\* handler suspends at generateImages
RoutePost ==
  /\ RunIdle /\ RouteIdle
  /\ \E body \in RequestBodies, isImagenConfigured \in BOOLEAN :
       IF ~ParseSucceeds(body)
       THEN /\ response' = Send(400, <<>>, "")
            /\ route' = [IdleRoute EXCEPT !.pc = "done",
                           !.parsed = ParseSucceeds(body),
                           !.configured = isImagenConfigured]
       ELSE IF ~isImagenConfigured
       THEN /\ response' = Send(503, <<>>, "")
            /\ route' = [IdleRoute EXCEPT !.pc = "done",
                           !.parsed = ParseSucceeds(body),
                           !.configured = isImagenConfigured]
       ELSE /\ response' = response
            /\ route' = [pc |-> "generateImages", cutout |-> body.cutout,
                         sceneDesign |-> body.sceneDesign,
                         modelTier |-> TierOrDefault(body.modelTier),
                         modelId |-> ModelIdOf(TierOrDefault(body.modelTier)),
                         parsed |-> TRUE, configured |-> TRUE,
                         generateCalls |-> 1, compositeCalls |-> 0]
  /\ UNCHANGED <<harnessVars, runVars, generatedImages, compositedImages, outcomes,
                 protected>>

\* generateImages rejects: the outer catch answers 500
RouteGenerateFails ==
  /\ route.pc = "generateImages"
  /\ response' = Send(500, <<>>, "")
  /\ route' = [route EXCEPT !.pc = "done"]
  /\ UNCHANGED <<harnessVars, runVars, generatedImages, compositedImages, outcomes,
                 protected>>

\* generateImages resolves with n >= 1 backgrounds; the loop starts and
\* suspends in compositeContextualThumbnail for the first background
RouteGenerated ==
  /\ route.pc = "generateImages"
  /\ \E n \in 1..MaxVariations :
       generatedImages' = [i \in 1..n |-> GeneratedImage(i - 1)]
  /\ compositedImages' = <<>>
  /\ route' = [route EXCEPT !.pc = "compositing", !.compositeCalls = 1]
  /\ EnterContextual("route", 1, route.cutout, route.sceneDesign)
  /\ UNCHANGED <<harnessVars, outcomes, response, protected>>

\* the variation pushed when compositing succeeded / when it threw
CompositedVariation(bg, res) ==
  [imageBase64 |-> res.image, qualityScore |-> bg.qualityScore,
   mimeType |-> "image/png", composited |-> TRUE]
FallbackVariation_MarkedComposited(bg) ==
  [imageBase64 |-> bg.imageBase64, qualityScore |-> bg.qualityScore,
   mimeType |-> bg.mimeType, composited |-> TRUE]
FallbackVariation(bg) ==
  [imageBase64 |-> bg.imageBase64, qualityScore |-> bg.qualityScore,
   mimeType |-> bg.mimeType, composited |-> FALSE]

\* one iteration of the loop ends: push the variation, then either enter
\* compositeContextualThumbnail for the next background or send the response
RouteAfterComposite ==
  /\ route.pc = "compositing" /\ args.caller = "route" /\ pc = "done"
  /\ LET k == Len(compositedImages) + 1
         bg == generatedImages[k]
         pushed == Append(compositedImages,
                     IF result.status = "returned"
                     THEN CompositedVariation(bg, result)
                     ELSE FallbackVariation(bg))
     IN  /\ compositedImages' = pushed
         /\ outcomes' = Append(outcomes, result.status)
         /\ IF k < Len(generatedImages)
            THEN /\ EnterContextual("route", k + 1, route.cutout, route.sceneDesign)
                 /\ route' = [route EXCEPT !.compositeCalls = @ + 1]
                 /\ UNCHANGED response
            ELSE /\ response' = Send(200, pushed, ModelUsed(route.modelTier))
                 /\ route' = [route EXCEPT !.pc = "done"]
                 /\ UNCHANGED runVars
  /\ UNCHANGED <<harnessVars, generatedImages, protected>>

RouteStep ==
  \/ RoutePost \/ RouteGenerateFails \/ RouteGenerated \/ RouteAfterComposite

\* ------------------------------------------- middleware: authenticateToken
\* req.headers.authorization: absent, another scheme, the scheme in lower
\* case, the scheme with nothing after it, and a bearer token
AuthorizationHeaders ==
  {Omitted, Given("Basic dXNlcjpwdw=="), Given("bearer token"),
   Given("Bearer "), Given("Bearer token")}
\* authHeader.startsWith('Bearer ') on the strings that occur as inputs
StartsWithBearer(authHeader) == authHeader \in {"Bearer ", "Bearer token"}
\* authHeader.slice(7) on the strings that start with 'Bearer '
Slice7(authHeader) == IF authHeader = "Bearer token" THEN "token" ELSE ""
\* what jwt.verify(token, secret) does: returns the payload (exp absent or
\* not yet passed at the later Date.now()), returns a payload whose exp is
\* below the later Date.now(), or throws; the first three errors are
\* instances of jwt.JsonWebTokenError
VerifyOutcomes ==
  {"decoded", "decodedPastExp", "JsonWebTokenError", "TokenExpiredError",
   "NotBeforeError", "Error"}
JsonWebTokenErrors == {"JsonWebTokenError", "TokenExpiredError", "NotBeforeError"}

Responds(status) == [status |-> status, next |-> FALSE]
CallsNext == [status |-> 0, next |-> TRUE]

authenticateToken_IgnoresInvalidTokens(authHeader, secretConfigured, verified) ==
  LET token == IF authHeader # Omitted /\ StartsWithBearer(authHeader[1])
               THEN Given(Slice7(authHeader[1])) ELSE Omitted
  IN  IF token = Omitted \/ token[1] = "" THEN Responds(401)
      ELSE IF ~secretConfigured THEN Responds(500)
      ELSE CallsNext

\* authenticateToken(req, res, next)
authenticateToken(authHeader, secretConfigured, verified) ==
  LET token == IF authHeader # Omitted /\ StartsWithBearer(authHeader[1])
               THEN Given(Slice7(authHeader[1])) ELSE Omitted
  IN  IF token = Omitted \/ token[1] = "" THEN Responds(401)
      ELSE IF ~secretConfigured THEN Responds(500)
      ELSE IF verified \in JsonWebTokenErrors THEN Responds(401)
      ELSE IF verified = "Error" THEN Responds(500)
      ELSE IF verified = "decodedPastExp" THEN Responds(401)
      ELSE CallsNext

\* the endpoints mounted behind the middleware
ProtectedEndpoints == {"/api/analyze-product", "/api/generate-thumbnail"}

\* a request to a protected endpoint arrives: Express runs authenticateToken
\* (synchronous), which either answers or calls next()
ProtectedRequest ==
  /\ RunIdle /\ RouteIdle
  /\ \E endpoint \in ProtectedEndpoints, authHeader \in AuthorizationHeaders,
        secretConfigured \in BOOLEAN, verified \in VerifyOutcomes :
       LET outcome == authenticateToken(authHeader, secretConfigured, verified)
       IN  protected' =
             [IdleProtected EXCEPT
                !.endpoint = endpoint, !.authorization = authHeader,
                !.secretConfigured = secretConfigured, !.verified = verified,
                !.nextCalled = outcome.next,
                !.responses = IF outcome.next THEN <<>> ELSE <<outcome.status>>,
                !.pc = IF outcome.next THEN "handler" ELSE "done"]
  /\ UNCHANGED <<harnessVars, runVars, route, generatedImages, compositedImages,
                 outcomes, response>>

\* POST /api/generate-thumbnail: validation, configuration check, then the
\* handler suspends at generateImages
ThumbnailPost ==
  /\ protected.pc = "handler" /\ protected.endpoint = "/api/generate-thumbnail"
  /\ \E parseSucceeds \in BOOLEAN, modelTier \in ModelTiers,
        isImagenConfigured \in BOOLEAN :
       IF ~parseSucceeds
       THEN protected' = [protected EXCEPT !.handlerRan = TRUE, !.pc = "done",
                            !.responses = Append(@, 400)]
       ELSE IF ~isImagenConfigured
       THEN protected' = [protected EXCEPT !.handlerRan = TRUE, !.pc = "done",
                            !.responses = Append(@, 503)]
       ELSE protected' = [protected EXCEPT !.handlerRan = TRUE,
                            !.pc = "generateImages",
                            !.modelTier = TierOrDefault(modelTier),
                            !.modelId = ModelIdOf(TierOrDefault(modelTier))]
  /\ UNCHANGED <<harnessVars, runVars, route, generatedImages, compositedImages,
                 outcomes, response>>

\* generateImages resolves: res.json(response) with modelUsed
ThumbnailGenerated ==
  /\ protected.pc = "generateImages"
  /\ protected' = [protected EXCEPT !.pc = "done",
                     !.responses = Append(@, 200),
                     !.modelUsed = ModelUsed(protected.modelTier)]
  /\ UNCHANGED <<harnessVars, runVars, route, generatedImages, compositedImages,
                 outcomes, response>>

\* generateImages rejects: the catch answers 500
ThumbnailGenerateFails ==
  /\ protected.pc = "generateImages"
  /\ protected' = [protected EXCEPT !.pc = "done", !.responses = Append(@, 500)]
  /\ UNCHANGED <<harnessVars, runVars, route, generatedImages, compositedImages,
                 outcomes, response>>

\* POST /api/analyze-product: validation, configuration check, then the
\* handler suspends at analyzeProductImage
AnalyzePost ==
  /\ protected.pc = "handler" /\ protected.endpoint = "/api/analyze-product"
  /\ \E parseSucceeds \in BOOLEAN, isGeminiConfigured \in BOOLEAN :
       IF ~parseSucceeds
       THEN protected' = [protected EXCEPT !.handlerRan = TRUE, !.pc = "done",
                            !.responses = Append(@, 400)]
       ELSE IF ~isGeminiConfigured
       THEN protected' = [protected EXCEPT !.handlerRan = TRUE, !.pc = "done",
                            !.responses = Append(@, 503)]
       ELSE protected' = [protected EXCEPT !.handlerRan = TRUE,
                            !.pc = "analyzeProductImage"]
  /\ UNCHANGED <<harnessVars, runVars, route, generatedImages, compositedImages,
                 outcomes, response>>

\* analyzeProductImage resolves (res.json(analysis)) or rejects (500)
AnalyzeSettled ==
  /\ protected.pc = "analyzeProductImage"
  /\ \E status \in {200, 500} :
       protected' = [protected EXCEPT !.pc = "done", !.responses = Append(@, status)]
  /\ UNCHANGED <<harnessVars, runVars, route, generatedImages, compositedImages,
                 outcomes, response>>

ProtectedStep ==
  \/ ProtectedRequest \/ ThumbnailPost \/ ThumbnailGenerated
  \/ ThumbnailGenerateFails \/ AnalyzePost \/ AnalyzeSettled

\* ------------------------------------------- repeated direct invocations
\* the state an invocation starts in: its first await
FirstAwait(pipeline) ==
  IF pipeline = "lifestyle" THEN "resizeBackground" ELSE "metadata"

\* a finished direct invocation is recorded and the same orchestrator is
\* invoked again with the same background, cutout and parameters
Rerun ==
  /\ pc = "done" /\ args.caller = "direct" /\ previous = NoPrevious
  /\ previous' = <<[args |-> args, position |-> position, shadow |-> shadow,
                    compositeInputs |-> compositeInputs, canvas |-> canvas,
                    gradient |-> gradient,
                    reflectionFailed |-> reflectionFailed, result |-> result]>>
  /\ pc' = FirstAwait(args.pipeline)
  /\ raster' = Raster(args.backgroundSize.width, args.backgroundSize.height)
  /\ position' = NoBox /\ shadow' = NoShadow /\ compositeInputs' = <<>>
  /\ canvas' = <<>> /\ reflectionFailed' = FALSE /\ result' = NoResult
  /\ gradient' = NoGradient
  /\ UNCHANGED <<call, box, effect, args, routeVars>>

Init ==
  /\ call = NoCall /\ box = NoBox /\ effect = NoEffect /\ previous = NoPrevious
  /\ RunIdle /\ RouteIdle

Next ==
  \/ CallContextual \/ ContextualStep
  \/ CallLifestyle \/ LifestyleStep
  \/ CallFlat \/ FlatStep
  \/ RouteStep
  \/ ProtectedStep
  \/ Rerun

Spec == Init /\ [][Next]_vars

\* ------------------------------------------------------ claims: geometry
Abs(n) == IF n >= 0 THEN n ELSE 0 - n

\* one of the two calculateProductPosition resolvers has returned
Resolved == box # NoBox /\ call.fn \in {"lifestyle", "contextual"}
RatioInRange == call.fn = "lifestyle" \/
                (call.productSpaceRatio >= 20 /\ call.productSpaceRatio <= 60)
TargetWidthOfCall ==
  IF call.fn = "lifestyle" THEN PctOf(THUMBNAIL_WIDTH, 35)
  ELSE PctOf(THUMBNAIL_WIDTH, call.productSpaceRatio)
\* cross-product distance between the box's aspect and the cutout's aspect
AspectError ==
  Abs(box.width * call.cutoutHeight - box.height * call.cutoutWidth)
OnePixelOfRounding == Max(call.cutoutWidth, call.cutoutHeight)

\* C1: for every cutout and intent, the box returned by the lifestyle
\* resolver, and by the contextual resolver for productSpaceRatio in
\* [0.2, 0.6], has integer fields, keeps the 20px margin on all four sides
\* and is at least 200 x 200.
C1_BoxInsideMargins ==
  (Resolved /\ RatioInRange) =>
    /\ box.x \in Int /\ box.y \in Int /\ box.width \in Int /\ box.height \in Int
    /\ box.x >= 20 /\ box.y >= 20
    /\ box.x + box.width <= THUMBNAIL_WIDTH - 20
    /\ box.y + box.height <= THUMBNAIL_HEIGHT - 20
    /\ box.width >= 200 /\ box.height >= 200

\* C1 witness: a tall cutout on a pedestal, where the 20px clamp moved the box.
C1_Witness ==
  /\ Resolved /\ call.fn = "contextual" /\ call.productSpaceRatio = 60
  /\ call.pedestalPosition = "center-bottom"
  /\ box.height = 612 /\ box.y = 20

\* C2 as stated: the box keeps the cutout's aspect up to one pixel of
\* rounding for every cutout, also when the 200 x 200 floor is applied.
C2_AspectPreservedAlways ==
  Resolved => AspectError <= OnePixelOfRounding

\* C2 amended: the box keeps the cutout's aspect up to one pixel of rounding
\* whenever the fitted size already meets the 200px minimum, i.e. whenever
\* the floor changes neither dimension.
C2_AspectPreservedAboveFloor ==
  LET fit == FitSize(TargetWidthOfCall, call.cutoutWidth, call.cutoutHeight)
  IN  (Resolved /\ fit.width >= MinDrawSize /\ fit.height >= MinDrawSize)
        => AspectError <= OnePixelOfRounding

\* C2 witness: a box above the floor whose height was rounded down.
C2_Witness ==
  /\ Resolved /\ box.width > MinDrawSize /\ box.height > MinDrawSize
  /\ box.width * call.cutoutHeight > box.height * call.cutoutWidth
  /\ AspectError <= OnePixelOfRounding

\* C3 as stated: for center-bottom the box is horizontally centred and its
\* bottom edge is at 65% of the canvas height (468), for every cutout.
C3_BottomEdgeAlwaysOnPedestal ==
  (Resolved /\ RatioInRange /\ call.pedestalPosition = "center-bottom") =>
    /\ box.x = (THUMBNAIL_WIDTH - box.width) \div 2
    /\ box.y + box.height = 468

\* C3 amended: for center-bottom the box is horizontally centred whenever it
\* fits between the margins (width <= 1240), its bottom edge is at 468
\* whenever its height is at most 448, and a taller box is clamped to y = 20.
C3_BottomEdgeOnPedestalUnlessClamped ==
  (Resolved /\ call.pedestalPosition = "center-bottom") =>
    /\ box.width <= THUMBNAIL_WIDTH - 2 * EdgeMargin
         => box.x = (THUMBNAIL_WIDTH - box.width) \div 2
    /\ box.height <= 448 => box.y + box.height = 468
    /\ box.height > 448 => box.y = 20

\* C3 witness: a wide cutout resting on the pedestal line.
C3_Witness ==
  /\ Resolved /\ call.fn = "contextual" /\ call.pedestalPosition = "center-bottom"
  /\ box.height <= 448 /\ box.y + box.height = 468
  /\ box.x = (THUMBNAIL_WIDTH - box.width) \div 2

\* C4: for left-third and right-third the box is vertically centred and its
\* horizontal midpoint is, up to flooring, the 33% resp. 67% point of the
\* canvas width, identically in the lifestyle and the contextual resolver.
C4_ThirdsAnchoredAt33And67 ==
  (Resolved /\ RatioInRange /\
   call.pedestalPosition \in {"left-third", "right-third"}) =>
    LET pct == IF call.pedestalPosition = "left-third" THEN 33 ELSE 67
    IN  /\ box.y = (THUMBNAIL_HEIGHT - box.height) \div 2
        \* x = floor(pct% * 1280 - width / 2)
        /\ 200 * box.x <= 2 * THUMBNAIL_WIDTH * pct - 100 * box.width
        /\ 2 * THUMBNAIL_WIDTH * pct - 100 * box.width < 200 * (box.x + 1)

\* -------------------------------------------------- claims: orchestrators
LayerKinds(layers) == [i \in 1..Len(layers) |-> layers[i].layer]
InsideMargins(b) ==
  /\ b.x >= EdgeMargin /\ b.y >= EdgeMargin
  /\ b.x + b.width <= THUMBNAIL_WIDTH - EdgeMargin
  /\ b.y + b.height <= THUMBNAIL_HEIGHT - EdgeMargin
IsRun(name) == args.pipeline = name
HandedToCompositor == pc = "composite" \/ result.status = "returned"

\* C5: whatever productSpaceRatio is passed to compositeContextualThumbnail
\* (also below 0.2 or above 0.6), the box it returns lies inside the canvas
\* with the 20px margin on every side.
C5_ReturnedBoxInsideMarginsForAnyRatio ==
  (IsRun("contextual") /\ result.status = "returned")
    => InsideMargins(result.position)

\* C6: in the contextual and the flat orchestrator the layer list is shadow
\* first, then the reflection if one was produced, then the cutout last; at
\* no time does a layer follow the cutout or precede the shadow, and the list
\* handed to the compositor ends with the cutout.
C6_LayerOrder ==
  (IsRun("contextual") \/ IsRun("flat")) =>
    LET kinds == LayerKinds(compositeInputs)
    IN  /\ \A i \in 1..Len(kinds) :
             /\ kinds[i] = "shadow" <=> i = 1
             /\ kinds[i] = "cutout" => i = Len(kinds)
             /\ kinds[i] = "reflection" => i = 2
        /\ HandedToCompositor =>
             /\ kinds \in {<<"shadow", "cutout">>,
                           <<"shadow", "reflection", "cutout">>}
             /\ IsRun("flat") => kinds = <<"shadow", "cutout">>
        /\ result.status = "returned" => result.image.layers = compositeInputs

\* C6 witness: a contextual run returned an image of all three layers.
C6_Witness ==
  /\ IsRun("contextual") /\ result.status = "returned"
  /\ LayerKinds(result.image.layers) = <<"shadow", "reflection", "cutout">>

\* C7: in the contextual orchestrator a reflection layer is in the list only
\* if pedestal.hasReflection is true and pedestal.position is center-bottom;
\* for every other combination the list handed to the compositor is exactly
\* [shadow, cutout].
C7_ReflectionOnlyOnReflectivePedestal ==
  IsRun("contextual") =>
    LET kinds == LayerKinds(compositeInputs)
        pedestal == args.sceneDesign.pedestal
    IN  /\ (\E i \in 1..Len(kinds) : kinds[i] = "reflection")
             => (pedestal.hasReflection /\ pedestal.position = "center-bottom")
        /\ (HandedToCompositor /\
            ~(pedestal.hasReflection /\ pedestal.position = "center-bottom"))
             => kinds = <<"shadow", "cutout">>

\* C7 witness: a reflective pedestal that is not center-bottom got no
\* reflection layer.
C7_Witness ==
  /\ IsRun("contextual") /\ result.status = "returned"
  /\ args.sceneDesign.pedestal.hasReflection
  /\ args.sceneDesign.pedestal.position = "right-third"
  /\ LayerKinds(compositeInputs) = <<"shadow", "cutout">>

\* C8: when reflection synthesis fails in compositeContextualThumbnail the
\* failure is caught: the list becomes [shadow, cutout], the run goes on to
\* the final composite, a returned result has composited = true and exactly
\* those two layers, and the only error such a run can still throw is that of
\* the final composite, never the reflection's.
C8_ReflectionFailureIsNotFatal ==
  (IsRun("contextual") /\ reflectionFailed) =>
    /\ LayerKinds(compositeInputs) = <<"shadow", "cutout">>
    /\ pc \in {"composite", "done"}
    /\ result.error \in {"none", "composite"}
    /\ pc = "done" =>
         \/ result.status = "thrown" /\ result.error = "composite"
         \/ /\ result.status = "returned" /\ result.composited
            /\ LayerKinds(result.image.layers) = <<"shadow", "cutout">>

\* C8 witness: the reflection failed and the run still returned.
C8_Witness ==
  /\ IsRun("contextual") /\ reflectionFailed
  /\ result.status = "returned" /\ result.composited

\* the background operations a complete run of each orchestrator applies
FullCanvas ==
  IF IsRun("lifestyle") THEN <<"resize", "blur", "vignette", "composite">>
  ELSE <<"resize", "composite">>
RethrownSteps ==
  {"metadata", "resizeCutout", "shadow", "resizeBackground", "blur",
   "overlay", "composite"}

\* C9: a finished orchestrator run (flat, contextual, lifestyle) has either
\* returned composited = true with the fully processed image, or thrown the
\* error of the step that failed (never the reflection's); it never returns
\* composited = false and never returns a partially processed image.
C9_ReturnsCompositedOrThrows ==
  ~IsRun("none") =>
    /\ pc = "done" <=> result.status \in {"returned", "thrown"}
    /\ result.status = "returned" =>
         /\ result.composited
         /\ canvas = FullCanvas
         /\ Len(result.image.layers) >= 1
         /\ result.image.layers[Len(result.image.layers)].layer = "cutout"
    /\ result.status = "thrown" =>
         /\ result.error \in RethrownSteps
         /\ ~result.composited /\ result.image = <<>>
         /\ canvas # FullCanvas

\* C9 witness: the lifestyle orchestrator threw the blur step's error.
C9_Witness ==
  /\ IsRun("lifestyle") /\ result.status = "thrown" /\ result.error = "blur"
  /\ canvas = <<"resize">>

\* -------------------------------------------------------- claims: route
\* C10: once the backgrounds are generated the route answers 200 with one
\* variation per background, in the backgrounds' order; variation i is
\* composited = true with the image composited onto background i iff the
\* i-th compositeContextualThumbnail call returned, and composited = false
\* with the raw background i iff it threw; every background gets its
\* compositing attempt, and the response is never a 500.
C10_PerVariationIsolation ==
  LET n == Len(generatedImages)
      Matches(v, i) ==
        /\ v.qualityScore = generatedImages[i].qualityScore
        /\ v.composited <=> outcomes[i] = "returned"
        /\ v.composited =>
             /\ v.imageBase64.background = i
             /\ LayerKinds(v.imageBase64.layers) \in
                  {<<"shadow", "cutout">>, <<"shadow", "reflection", "cutout">>}
        /\ ~v.composited => v.imageBase64 = generatedImages[i].imageBase64
  IN  n > 0 =>
        /\ response.status \in {0, 200}
        /\ Len(compositedImages) = Len(outcomes)
        /\ Len(compositedImages) <= n
        /\ \A i \in 1..Len(compositedImages) : Matches(compositedImages[i], i)
        /\ route.pc = "done" =>
             /\ response.status = 200
             /\ response.variations = compositedImages
             /\ Len(response.variations) = n

\* C10 witness: the first variation's compositing threw, the second one was
\* composited, and the response carries both.
C10_Witness ==
  /\ response.status = 200 /\ Len(response.variations) = 2
  /\ outcomes = <<"thrown", "returned">>
  /\ ~response.variations[1].composited /\ response.variations[2].composited

\* ------------------------------------------------ claims: shadow presets
Applied(fn) == effect.fn = fn
ShadowParameters == {"blur", "offsetX", "offsetY", "opacity"}
\* the background colours of BackgroundColors that are near-black
DarkBackgroundColors == {"#000000", "#1C1C1E", "#1c1c1e", "#1c1C1eFF"}

\* C11: getShadowFromDesign follows a strict priority for every combination
\* of lighting type, intensity, mood and background colour: dramatic or neon
\* lighting gives the dramatic preset whatever the other fields are; otherwise
\* soft lighting or low-key intensity gives soft; otherwise a dark background
\* (bold or energetic mood, '#000000', or a colour containing '1c1c1e' in
\* any case) gives dark; otherwise light; the result is always one of the
\* table's presets, never a blend.
C11_ShadowPriorityOrder ==
  Applied("getShadowFromDesign") =>
    LET lighting == call.design.environment.lighting
        scheme == call.design.colorScheme
        dramatic == lighting.type \in {"dramatic", "neon"}
        soft == lighting.type = "soft" \/ lighting.intensity = "low-key"
        dark == \/ scheme.mood \in {"bold", "energetic"}
                \/ scheme.background \in DarkBackgroundColors
    IN  /\ dramatic => effect.shadow = SHADOW_PRESETS.dramatic
        /\ (~dramatic /\ soft) => effect.shadow = SHADOW_PRESETS.soft
        /\ (~dramatic /\ ~soft /\ dark) => effect.shadow = SHADOW_PRESETS.dark
        /\ (~dramatic /\ ~soft /\ ~dark) => effect.shadow = SHADOW_PRESETS.light
        /\ \E name \in DOMAIN SHADOW_PRESETS : effect.shadow = SHADOW_PRESETS[name]

\* C11 witness: dramatic lighting wins over low-key intensity, and an
\* upper-case near-black background resolved to the dark preset.
C11_Witness ==
  /\ Applied("getShadowFromDesign")
  /\ \/ /\ call.design.environment.lighting.type = "neon"
        /\ call.design.environment.lighting.intensity = "low-key"
        /\ effect.shadow = SHADOW_PRESETS.dramatic
     \/ /\ call.design.colorScheme.background = "#1C1C1E"
        /\ call.design.colorScheme.mood = "calm"
        /\ effect.shadow = SHADOW_PRESETS.dark

StrictlyLargest(presets, name, parameters) ==
  \A other \in DOMAIN presets \ {name}, f \in parameters :
    presets[name][f] > presets[other][f]
Smallest(presets, name, parameters) ==
  \A other \in DOMAIN presets, f \in parameters :
    presets[name][f] <= presets[other][f]

\* C12 (as stated): among the presets dark, light, dramatic, soft and
\* default, dramatic has the strictly largest and soft the smallest value of
\* every parameter (blur, offsetX, offsetY, opacity), so every preset the
\* resolver returns lies between soft and dramatic in every parameter.
C12_DramaticLargestSoftSmallest ==
  Applied("getShadowFromDesign") =>
    /\ StrictlyLargest(SHADOW_PRESETS, "dramatic", ShadowParameters)
    /\ Smallest(SHADOW_PRESETS, "soft", ShadowParameters)
    /\ \A f \in ShadowParameters :
         /\ effect.shadow[f] <= SHADOW_PRESETS.dramatic[f]
         /\ effect.shadow[f] >= SHADOW_PRESETS.soft[f]

\* C12 (amended): dramatic has the strictly largest value of every
\* parameter; soft has the smallest blur, offsetY and opacity, but not the
\* smallest offsetX: the dark preset's offsetX is 0, below soft's 3, and it
\* is the only value of the table below soft's.
C12_DramaticLargestSoftSmallestButOffsetX ==
  Applied("getShadowFromDesign") =>
    /\ StrictlyLargest(SHADOW_PRESETS, "dramatic", ShadowParameters)
    /\ Smallest(SHADOW_PRESETS, "soft", {"blur", "offsetY", "opacity"})
    /\ \A name \in DOMAIN SHADOW_PRESETS :
         SHADOW_PRESETS[name].offsetX < SHADOW_PRESETS.soft.offsetX
           <=> name = "dark"
    /\ \A f \in ShadowParameters :
         /\ effect.shadow[f] <= SHADOW_PRESETS.dramatic[f]
         /\ effect.shadow[f] < SHADOW_PRESETS.dramatic[f]
              \/ effect.shadow = SHADOW_PRESETS.dramatic
         /\ f # "offsetX" => effect.shadow[f] >= SHADOW_PRESETS.soft[f]

\* C12 witness: the resolver returned the dark preset, whose offsetX is
\* below the soft preset's.
C12_Witness ==
  /\ Applied("getShadowFromDesign")
  /\ effect.shadow = SHADOW_PRESETS.dark
  /\ effect.shadow.offsetX < SHADOW_PRESETS.soft.offsetX

\* other spellings of table keys among Categories
OtherSpellings ==
  [FITNESS |-> "fitness", Baby |-> "baby", Tech |-> "tech", DEFAULT |-> "default"]

\* C13: getShadowSettings is case-insensitive and total: a category that
\* equals a table key ignoring case gets that key's preset; a missing
\* category and every other string (the empty string and names of built-in
\* object properties included) gets the default preset
\* {blur 20, offsetX 5, offsetY 10, opacity 0.3}.
C13_ShadowSettingsTotal ==
  Applied("getShadowSettings") =>
    LET category == call.category
    IN  effect.shadow =
          IF category \in DOMAIN CATEGORY_SHADOWS THEN CATEGORY_SHADOWS[category]
          ELSE IF category \in DOMAIN OtherSpellings
            THEN CATEGORY_SHADOWS[OtherSpellings[category]]
          ELSE [blur |-> 20, offsetX |-> 5, offsetY |-> 10, opacity |-> 30]

\* ------------------------------------------------- claims: blur, vignette
\* the last gradient stop of the SVG
OuterStop(svg) == svg.stops[Len(svg.stops)]
\* the clamp of v to lo..hi, written out by cases
Clamped(v, lo, hi) == IF v < lo THEN lo ELSE IF v > hi THEN hi ELSE v

\* C14: for every opacity passed to createRadialGradient the opacity used is
\* max(0.20, min(0.30, input)); the outer stop's alpha is that opacity times
\* 255, rounded, written as exactly two hex digits after '#000000', so the
\* alpha byte lies in 0x33..0x4d; 0.10 gives 33, 0.25 gives 40, 0.50 gives
\* 4d; an out-of-range opacity is not an error.
C14_OpacityClampedAndHex ==
  Applied("createRadialGradient") =>
    LET used == IF call.opacity = Omitted THEN 25
                ELSE Clamped(call.opacity[1], 20, 30)
        alpha == OuterStop(effect.gradient).alpha
    IN  /\ effect.status = "returned"
        \* alpha = round(used / 100 * 255), halves up
        /\ 200 * alpha - 100 <= 2 * 255 * used
        /\ 2 * 255 * used < 200 * alpha + 100
        /\ alpha >= 51 /\ alpha <= 77
        /\ OuterStop(effect.gradient).color =
             "#000000" \o HexDigits[(alpha \div 16) + 1] \o HexDigits[(alpha % 16) + 1]
        /\ call.opacity = Given(10) => OuterStop(effect.gradient).color = "#00000033"
        /\ call.opacity = Given(25) => OuterStop(effect.gradient).color = "#00000040"
        /\ call.opacity = Given(50) => OuterStop(effect.gradient).color = "#0000004d"

\* C14 witness: opacity 0.50 was clamped to 0.30 and written as 4d.
C14_Witness ==
  /\ Applied("createRadialGradient") /\ call.opacity = Given(50)
  /\ OuterStop(effect.gradient).alpha = 77
  /\ OuterStop(effect.gradient).color = "#0000004d"

\* C15: for every radius passed to applyGaussianBlur the radius applied is
\* max(8, min(15, input)), always within 8..15 (3 gives 8, 25 gives 15, an
\* omitted radius 12); an out-of-range radius is never rejected; clamping the
\* applied radius again leaves it unchanged.
C15_BlurRadiusClamped ==
  Applied("applyGaussianBlur") =>
    LET applied == effect.image.blur
    IN  /\ effect.status = "returned"
        /\ applied >= 8 /\ applied <= 15
        /\ call.radius = Omitted => applied = 12
        /\ call.radius # Omitted => applied = Clamped(call.radius[1], 8, 15)
        /\ call.radius = Given(3) => applied = 8
        /\ call.radius = Given(25) => applied = 15
        /\ applyGaussianBlur(effect.image, Given(applied)) = effect.image

\* C15 witness: radius 25 was applied as 15.
C15_Witness ==
  /\ Applied("applyGaussianBlur") /\ call.radius = Given(25)
  /\ effect.status = "returned" /\ effect.image.blur = 15

\* C16: createRadialGradient maps each placement intent to one gradient
\* centre, whatever the canvas size and the opacity: center (0.5, 0.55),
\* right-third (0.67, 0.55), left-third (0.33, 0.55), center-bottom
\* (0.5, 0.7); the radius is always 0.7 and the gradient is fully
\* transparent from its centre out to 60% of the radius.
C16_GradientCentreByIntent ==
  Applied("createRadialGradient") =>
    LET svg == effect.gradient
    IN  /\ call.position = "center" => (svg.cx = 50 /\ svg.cy = 55)
        /\ call.position = "right-third" => (svg.cx = 67 /\ svg.cy = 55)
        /\ call.position = "left-third" => (svg.cx = 33 /\ svg.cy = 55)
        /\ call.position = "center-bottom" => (svg.cx = 50 /\ svg.cy = 70)
        /\ svg.r = 70
        /\ svg.width = call.size.width /\ svg.height = call.size.height
        /\ Len(svg.stops) = 3
        /\ svg.stops[1].offset = 0 /\ svg.stops[1].alpha = 0
        /\ svg.stops[2].offset = 60 /\ svg.stops[2].alpha = 0
        /\ svg.stops[3].offset = 100

\* C16 witness: a right-third gradient on a 1x1 canvas with an out-of-range
\* opacity is centred at (0.67, 0.55).
C16_Witness ==
  /\ Applied("createRadialGradient") /\ call.position = "right-third"
  /\ call.size = [width |-> 1, height |-> 1] /\ call.opacity = Given(100)
  /\ effect.gradient.cx = 67 /\ effect.gradient.cy = 55

\* squared distance of the point (u/den, v/den) from the gradient centre, and
\* the squared transparent radius, both in units of 1 / (100 * den)
DistanceSquared(svg, u, v, den) ==
  (100 * u - den * svg.cx) * (100 * u - den * svg.cx)
    + (100 * v - den * svg.cy) * (100 * v - den * svg.cy)
TransparentRadiusSquared(den) == (42 * den) * (42 * den)
IsCorner(point) == point[1] \in {0, GridSize} /\ point[2] \in {0, GridSize}

\* C17: for every placement intent and opacity, the vignette applied to an
\* opaque white image leaves every canvas corner strictly darker than the
\* canvas centre: each corner is farther from the gradient centre than the
\* transparent radius 0.6 * 0.7 (in bounding-box units), and the canvas
\* centre is nearer than that.
C17_CornersDarkerThanCentre ==
  (Applied("applyGradientOverlay") /\ IsCorner(call.point)) =>
    /\ effect.pixel < effect.centrePixel
    /\ effect.centrePixel = 255
    /\ DistanceSquared(effect.image.vignette, call.point[1], call.point[2],
                       GridSize) > TransparentRadiusSquared(GridSize)
    /\ DistanceSquared(effect.image.vignette, 1, 1, 2)
         < TransparentRadiusSquared(2)

\* C17 witness: the corner nearest to a right-third gradient centre, at the
\* smallest opacity, is darker than the centre.
C17_Witness ==
  /\ Applied("applyGradientOverlay") /\ call.position = "right-third"
  /\ call.point = <<GridSize, GridSize>> /\ call.opacity = Given(0)
  /\ effect.pixel < effect.centrePixel

\* C18: for every placement intent and opacity, every point of the canvas
\* border gets a vignette alpha strictly greater than the alpha at the
\* centre: no border point lies inside the transparent inner 60% of the
\* gradient radius.
C18_BorderDarkerThanCentre ==
  Applied("applyGradientOverlay") =>
    /\ effect.alpha > effect.centreAlpha
    /\ DistanceSquared(effect.image.vignette, call.point[1], call.point[2],
                       GridSize) > TransparentRadiusSquared(GridSize)

\* ---------------------------------------------- claims: lifestyle pipeline
IsPrefix(short, long) ==
  Len(short) <= Len(long) /\ \A i \in 1..Len(short) : short[i] = long[i]
CanvasSized(image) ==
  image.width = THUMBNAIL_WIDTH /\ image.height = THUMBNAIL_HEIGHT

\* C19: compositeLifestyleThumbnail works in the fixed order resize the
\* background to the canvas, blur, build and apply the vignette, resolve the
\* geometry (35% width target), composite the cutout; the cutout is the only
\* layer and is composited after blur and vignette, so it is neither blurred
\* nor darkened; the vignette is centred by the same intent as the placement.
C19_LifestyleStepOrder ==
  IsRun("lifestyle") =>
    /\ IsPrefix(canvas, <<"resize", "blur", "vignette", "composite">>)
    \* the blur acts on the resized background only
    /\ raster.blur # 0 <=> Len(canvas) >= 2
    /\ Len(canvas) >= 2 => (raster.blur >= 8 /\ raster.blur <= 15)
    \* the vignette is built after the blur and applied before the geometry
    /\ gradient # NoGradient => Len(canvas) >= 2
    /\ raster.vignette # <<>> <=> Len(canvas) >= 3
    /\ Len(canvas) >= 3 => (raster.vignette = gradient /\ CanvasSized(gradient))
    /\ gradient # NoGradient =>
         /\ args.position = "center" => (gradient.cx = 50 /\ gradient.cy = 55)
         /\ args.position = "right-third" => (gradient.cx = 67 /\ gradient.cy = 55)
         /\ args.position = "left-third" => (gradient.cx = 33 /\ gradient.cy = 55)
         /\ args.position = "center-bottom" => (gradient.cx = 50 /\ gradient.cy = 70)
    \* geometry: resolved after the vignette, for the same intent, at most
    \* 35% of the canvas width
    /\ position # NoBox =>
         /\ Len(canvas) >= 3
         /\ position.width * 100 <= THUMBNAIL_WIDTH * 35
         /\ InsideMargins(position)
         /\ args.position = "right-third" => 2 * position.x + position.width > THUMBNAIL_WIDTH
         /\ args.position = "left-third" => 2 * position.x + position.width < THUMBNAIL_WIDTH
    \* the cutout is the only layer, composited last
    /\ compositeInputs # <<>> =>
         (position # NoBox /\ compositeInputs = <<CutoutLayer(position)>>)
    /\ Len(canvas) = 4 =>
         /\ result.status = "returned"
         /\ result.position = position
         /\ result.image.layers = <<CutoutLayer(position)>>
    /\ result.status = "returned" => Len(canvas) = 4

\* C19 witness: a right-third lifestyle run with a blur radius of 50 returned:
\* the background was blurred at 15 and vignetted around (0.67, 0.55), then
\* the cutout alone was composited.
C19_Witness ==
  /\ IsRun("lifestyle") /\ result.status = "returned"
  /\ args.position = "right-third" /\ args.blurRadius = Given(50)
  /\ canvas = <<"resize", "blur", "vignette", "composite">>
  /\ raster.blur = 15 /\ raster.vignette.cx = 67
  /\ LayerKinds(result.image.layers) = <<"cutout">>

\* C20: for every background size and cutout size, the image each
\* orchestrator (flat, contextual, lifestyle) returns is exactly 1280x720:
\* the background is resized to the canvas, and blur, vignette overlay and
\* layer compositing leave the raster's dimensions unchanged.
C20_OutputIsCanvasSized ==
  ~IsRun("none") =>
    /\ Len(canvas) = 0 =>
         (raster.width = args.backgroundSize.width
          /\ raster.height = args.backgroundSize.height)
    /\ Len(canvas) >= 1 => CanvasSized(raster)
    /\ result.status = "returned" => CanvasSized(result.image)

\* C20 witness: a lifestyle run on a 100x100 background and a 1000x300
\* cutout returned a canvas-sized image.
C20_Witness ==
  /\ IsRun("lifestyle") /\ result.status = "returned"
  /\ args.backgroundSize = [width |-> 100, height |-> 100]
  /\ args.cutout = [width |-> 1000, height |-> 300]
  /\ result.image.width = 1280 /\ result.image.height = 720

\* ------------------------------------------- claims: intents and the canvas
LifestyleResolved == box # NoBox /\ call.fn = "lifestyle"
FlatResolved == box # NoBox /\ call.fn = "flat"

\* C22: in the lifestyle resolver, for every cutout, right-third puts the
\* box's left edge right of x = 600, left-third puts it left of x = 500, and
\* the right-third box starts strictly right of the left-third box of the
\* same cutout.
C22_ThirdsOnTheirSide ==
  LifestyleResolved =>
    LET other(intent) == calculateProductPositionLifestyle(intent,
                           call.cutoutWidth, call.cutoutHeight)
    IN  /\ call.pedestalPosition = "right-third" =>
             /\ box.x > 600
             /\ box.x > other("left-third").x
        /\ call.pedestalPosition = "left-third" =>
             /\ box.x < 500
             /\ box.x < other("right-third").x

\* C22 witness: a right-third box of the widest size the resolver produces.
C22_Witness ==
  /\ LifestyleResolved /\ call.pedestalPosition = "right-third"
  /\ box.width = 448 /\ box.x = 633

\* C23: in the lifestyle resolver, for intent center and every cutout, the
\* canvas centre (640, 360) lies inside the returned box.
C23_CentreInsideCentredBox ==
  (LifestyleResolved /\ call.pedestalPosition = "center") =>
    /\ box.x <= 640 /\ 640 < box.x + box.width
    /\ box.y <= 360 /\ 360 < box.y + box.height

\* C23 witness: the lowest box (a wide strip raised to 200px) centred on
\* the canvas.
C23_Witness ==
  /\ LifestyleResolved /\ call.pedestalPosition = "center"
  /\ box.width = 448 /\ box.height = 200 /\ box.x = 416 /\ box.y = 260

\* C24: in the flat pipeline, for every cutout, the product is at most
\* floor(1280 * 0.45) = 576 wide, its right edge is at x = 1216 and it is
\* vertically centred.
C24_FlatBoxRightAligned ==
  FlatResolved =>
    /\ box.width <= PctOf(THUMBNAIL_WIDTH, 45)
    /\ box.x + box.width = 1216
    /\ box.y = (THUMBNAIL_HEIGHT - box.height) \div 2

\* ------------------------------------------------ claims: reachable presets
DesignPresets == {SHADOW_PRESETS.dramatic, SHADOW_PRESETS.soft,
                  SHADOW_PRESETS.dark, SHADOW_PRESETS.light}

\* C29: getShadowFromDesign returns one of the dramatic, soft, dark and
\* light presets for every scene design; the 'default' preset (blur 20,
\* offsetX 5, offsetY 12, opacity 0.35) is never returned by it.
C29_DefaultPresetNeverFromDesign ==
  Applied("getShadowFromDesign") =>
    /\ effect.shadow \in DesignPresets
    /\ effect.shadow # SHADOW_PRESETS.default
    /\ effect.shadow # [blur |-> 20, offsetX |-> 5, offsetY |-> 12, opacity |-> 35]

\* C29 witness: a design none of the first three tests matches (natural
\* balanced light, calm mood, white background) falls to the light preset,
\* one step before the unreachable default.
C29_Witness ==
  /\ Applied("getShadowFromDesign")
  /\ call.design.environment.lighting.type = "natural"
  /\ call.design.environment.lighting.intensity = "balanced"
  /\ call.design.colorScheme.mood = "calm"
  /\ call.design.colorScheme.background = "#FFFFFF"
  /\ effect.shadow = SHADOW_PRESETS.light

\* ----------------------------------------------- claims: layer placement
ContextualResolved == box # NoBox /\ call.fn = "contextual"

\* C26: the contextual reflection layer is placed at left = box.x and
\* top = min(720 - 50, box.y + box.height); top never exceeds 670; and for
\* every cutout and every productSpaceRatio in [0.2, 0.6] under center-bottom
\* (the only intent that gets a reflection) top equals box.y + box.height:
\* the clamp never changes the value.
C26_ReflectionStartsAtBoxBottom ==
  (ContextualResolved /\ WantsReflection([position |-> call.pedestalPosition,
                                          hasReflection |-> TRUE])) =>
    LET reflection == ReflectionLayer(box)
    IN  /\ reflection.left = box.x
        /\ reflection.top = Min(670, box.y + box.height)
        /\ reflection.top <= 670
        /\ RatioInRange => reflection.top = box.y + box.height

\* C26 witness: the tallest box (612 high, clamped to y = 20) has its
\* reflection at 632, still above the 670 limit.
C26_Witness ==
  /\ ContextualResolved /\ call.pedestalPosition = "center-bottom"
  /\ call.productSpaceRatio = 60
  /\ box.y = 20 /\ box.height = 612
  /\ ReflectionLayer(box).top = 632

\* the presets a pipeline can hand to its shadow layer
PresetsOf(fn) ==
  IF fn = "flat"
  THEN {CATEGORY_SHADOWS[name] : name \in DOMAIN CATEGORY_SHADOWS}
  ELSE {SHADOW_PRESETS[name] : name \in DOMAIN SHADOW_PRESETS}

\* C30: in the flat and the contextual pipeline (productSpaceRatio in
\* [0.2, 0.6]), for every cutout, intent and preset, the shadow layer (as
\* large as the subject box, at top = max(0, y + offsetY),
\* left = max(0, x + offsetX)) lies entirely inside the 1280 x 720 canvas,
\* and max(0, .) never changes the value.
C30_ShadowInsideCanvas ==
  (box # NoBox /\ call.fn \in {"flat", "contextual"} /\ RatioInRange) =>
    \A preset \in PresetsOf(call.fn) :
      LET layer == ShadowLayer(box, preset)
      IN  /\ layer.top = box.y + preset.offsetY
          /\ layer.left = box.x + preset.offsetX
          /\ layer.top >= 0 /\ layer.left >= 0
          /\ layer.left + box.width <= THUMBNAIL_WIDTH
          /\ layer.top + box.height <= THUMBNAIL_HEIGHT

\* C30 witness: the widest contextual box on the right third, where the
\* dramatic preset's shadow ends at x = 1226.
C30_Witness ==
  /\ ContextualResolved /\ call.pedestalPosition = "right-third"
  /\ call.productSpaceRatio = 60 /\ box.width = 768
  /\ ShadowLayer(box, SHADOW_PRESETS.dramatic).left + box.width = 1226

\* ------------------------------------------------- claims: repeated runs
Repeated == previous # NoPrevious
BothReturned ==
  /\ Repeated
  /\ result.status = "returned" /\ previous[1].result.status = "returned"
  /\ reflectionFailed = previous[1].reflectionFailed

BearerTokenSent == protected.authorization = Given("Bearer token")
Authenticated ==
  BearerTokenSent /\ protected.secretConfigured /\ protected.verified = "decoded"

\* C25: the handler of a protected endpoint runs only if authenticateToken
\* called next(), which it does only when the header carries a 'Bearer '
\* token, the JWT secret is configured, and the token verifies and is not
\* expired; otherwise the middleware answers 401 (missing, invalid or expired
\* token) or 500 (secret not configured, unexpected error) and the handler
\* never runs. Every invocation does exactly one of: answer, call next().
C25_HandlerOnlyBehindAuthentication ==
  protected.pc # "idle" =>
    /\ protected.handlerRan => protected.nextCalled
    /\ protected.nextCalled <=> Authenticated
    /\ (protected.nextCalled /\ ~protected.handlerRan) => protected.responses = <<>>
    /\ ~protected.nextCalled =>
         /\ ~protected.handlerRan /\ protected.pc = "done"
         /\ Len(protected.responses) = 1
         /\ protected.responses[1] \in {401, 500}
         /\ protected.responses[1] = 500 <=>
              /\ BearerTokenSent
              /\ ~protected.secretConfigured \/ protected.verified = "Error"

\* C25 witness: an authenticated request reached the generate-thumbnail
\* handler, which answered.
C25_Witness ==
  /\ protected.endpoint = "/api/generate-thumbnail"
  /\ Authenticated /\ protected.nextCalled /\ protected.handlerRan
  /\ protected.responses = <<200>>

\* --------------------------------------------------- claims: model tiers
\* C27: for every tier the modelUsed field of the generate-thumbnail and the
\* generate-contextual-thumbnail response equals IMAGEN_MODELS[modelTier],
\* the identifier generateImages called.
C27_ModelUsedIsTableEntry ==
  /\ response.status = 200 =>
       /\ response.modelUsed = IMAGEN_MODELS[route.modelTier]
       /\ response.modelUsed = route.modelId
  /\ protected.modelUsed # "" =>
       /\ protected.modelUsed = IMAGEN_MODELS[protected.modelTier]
       /\ protected.modelUsed = protected.modelId

\* ------------------------------------------- claims: the contextual route
\* C28: the contextual route answers every request exactly once and in a
\* fixed order: an invalid body gets 400 (also when Imagen is not
\* configured) with no generation and no compositing; a valid body with
\* Imagen not configured gets 503 without invoking generation; a generation
\* failure gets 500 with no compositing; generation is invoked at most once
\* per request and compositing exactly once per generated background.
C28_OneResponseInFixedOrder ==
  /\ response.sent <= 1
  /\ route.pc \notin {"idle", "done"} => response.sent = 0
  /\ route.generateCalls <= 1
  /\ route.compositeCalls <= Len(generatedImages)
  /\ route.pc = "compositing" => route.compositeCalls = Len(outcomes) + 1
  /\ route.pc = "done" =>
       /\ response.sent = 1
       /\ ~route.parsed <=> response.status = 400
       /\ (route.parsed /\ ~route.configured) <=> response.status = 503
       /\ response.status \in {400, 503} =>
            /\ route.generateCalls = 0 /\ route.compositeCalls = 0
            /\ generatedImages = <<>> /\ outcomes = <<>>
       /\ response.status = 500 =>
            /\ route.generateCalls = 1 /\ route.compositeCalls = 0
            /\ generatedImages = <<>> /\ outcomes = <<>>
       /\ response.status = 200 =>
            /\ route.generateCalls = 1
            /\ Len(generatedImages) >= 1
            /\ route.compositeCalls = Len(generatedImages)
            /\ Len(outcomes) = Len(generatedImages)
       /\ response.status \in {200, 400, 500, 503}

\* C28 witness: two backgrounds were generated by one call and composited by
\* two calls, and one response was sent.
C28_Witness ==
  /\ route.pc = "done" /\ response.status = 200 /\ response.sent = 1
  /\ route.generateCalls = 1 /\ Len(generatedImages) = 2
  /\ route.compositeCalls = 2

=============================================================================
